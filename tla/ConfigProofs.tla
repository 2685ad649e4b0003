----------------------------- MODULE ConfigProofs -----------------------------
(***************************************************************************)
(* Proofs about ConfigStore, for any writers, hooks, paths, documents and  *)
(* calls, any number of changes from outside, of deaths and of power       *)
(* losses.                                                                 *)
(*                                                                         *)
(* StoreInv follows a call from its locks to its last sync: what it has    *)
(* compared under the lock stays as it was, unless the change is one of    *)
(* those recorded in raced.  ReadInv is about a hook: a candidate it has   *)
(* passed by was missing at some moment of the read, or has left remains,  *)
(* or is a document that nobody is about to create again.                  *)
(***************************************************************************)
EXTENDS ConfigStore, TLAPS

Holding == {"third", "read", "check"} \cup Committing

\* The locks a call holds at each of its steps.
Locked(w) ==
  /\ writer[w].pc \in Holding => lock[writer[w].sel.path] = w
  /\ writer[w].pc \in {"second", "target"} \cup Holding /\ writer[w].call.guarded => guard = w
  /\ \A p \in Paths : lock[p] = w => writer[w].pc \in Holding /\ writer[w].sel.path = p

\* What a call has settled at each of its steps.
Shape(w) ==
  /\ writer[w].pc # "idle" => writer[w].call \in Calls /\ writer[w].want \in Docs
  /\ writer[w].pc \in {"snap", "guard", "second", "target"} \cup Holding => writer[w].sel \in Selections
  /\ writer[w].pc = "read" => writer[w].sel.is = "exists"
  /\ writer[w].pc \in {"check"} \cup Committing =>
       IF writer[w].kind = "init"
       THEN writer[w].sel.is = "missing" /\ writer[w].pc \notin {"backup", "sync", "again"}
       ELSE /\ writer[w].sel.is = "exists" /\ writer[w].old \in Docs
            /\ writer[w].expect = [path |-> writer[w].sel.path, doc |-> writer[w].old]

\* What a call has compared still holds, but for changes made past its locks.
Holds(w) ==
  LET p == writer[w].sel.path
  IN  /\ writer[w].kind = "edit" /\ writer[w].pc \in Committing \ {"settle"} /\ p \notin writer[w].raced =>
           file[p] = writer[w].old
      /\ writer[w].pc = "settle" /\ p \notin writer[w].raced => file[p] = writer[w].want
      /\ writer[w].kind = "edit" /\ writer[w].pc = "sync" => writer[w].old \in backup[p]
      /\ writer[w].kind = "edit" /\ writer[w].pc \in {"temp", "again", "publish"} => writer[w].old \in synced[p]
      /\ writer[w].kind = "init" /\ writer[w].pc \in {"check", "temp", "publish"} =>
           p \notin litter /\ backup[p] = {}
      /\ writer[w].kind = "init" /\ writer[w].pc \in {"temp", "publish"} /\ writer[w].call.path = Automatic =>
           p = Neutral /\ (file[Legacy] = None \/ Legacy \in writer[w].raced)

Temp(w) == temp[w] = IF writer[w].pc \in {"again", "publish"} THEN writer[w].sel.path ELSE None

\* What is on the disk, and what a power loss may make of it.
Durable(p) ==
  /\ replaced[p] \subseteq synced[p] /\ synced[p] \subseteq backup[p]
  /\ file[p] \in likely[p]
  /\ settled[p] # None => likely[p] = {settled[p]}

StoreInv ==
  /\ ConfigTypeOK
  /\ \A w \in Writers : Locked(w) /\ Shape(w) /\ Holds(w) /\ Temp(w)
  /\ \A p \in Paths : Durable(p)
  /\ litter # {} => stops > 0

-----------------------------------------------------------------------------
LEMMA InitInv == ConfigInit => StoreInv
<1> SUFFICES ASSUME ConfigInit PROVE StoreInv
  OBVIOUS
<1> USE ConfigAssumption DEF ConfigInit, Idle
<1>1. ConfigTypeOK
  BY DEF ConfigTypeOK, Entries, CallStates, ReadStates, Calling, Reading, Quiet
<1>2. \A w \in Writers : Locked(w) /\ Shape(w) /\ Holds(w) /\ Temp(w)
  BY DEF Locked, Shape, Holds, Temp, Holding, Committing
<1>3. \A p \in Paths : Durable(p)
  BY DEF Durable
<1> QED
  BY <1>1, <1>2, <1>3 DEF StoreInv

\* A selection is one of a path, and says what is there.
LEMMA ResolveType ==
  ASSUME NEW env \in Paths \cup {Automatic}
  PROVE  /\ Resolve(env) \in Selections
         /\ Resolve(env).is = Candidate(Resolve(env).path)
         /\ Resolve(env).is = "exists" <=> file[Resolve(env).path] # None
         /\ Resolve(env).is = "missing" <=>
              file[Resolve(env).path] = None /\ ~Evidence(Resolve(env).path)
         /\ env = Automatic /\ Resolve(env).is = "missing" =>
              Resolve(env).path = Neutral /\ file[Legacy] = None
BY ConfigAssumption DEF Resolve, Candidate, Selections, Paths

\* A call that works under the lock of its path is the only one.
LEMMA LockOwner ==
  ASSUME StoreInv, NEW w \in Writers, writer[w].pc \in Holding
  PROVE  /\ writer[w].sel \in Selections /\ writer[w].sel.path \in Paths
         /\ lock[writer[w].sel.path] = w
         /\ \A v \in Writers : v # w /\ writer[v].pc \in Holding => writer[v].sel.path # writer[w].sel.path
<1>1. \A v \in Writers : writer[v].pc \in Holding =>
        lock[writer[v].sel.path] = v /\ writer[v].sel \in Selections
  BY DEF StoreInv, Locked, Shape
<1> QED
  BY <1>1 DEF Selections

\* What a call has compared is left alone by whoever leaves its path alone.
LEMMA HoldsFrame ==
  ASSUME StoreInv, NEW w \in Writers, writer'[w] = writer[w],
         writer[w].pc \in {"check"} \cup Committing =>
           LET p == writer[w].sel.path
           IN  /\ file'[p] = file[p] /\ backup[p] \subseteq backup'[p] /\ synced[p] \subseteq synced'[p]
               /\ writer[w].kind = "init" /\ writer[w].pc # "settle" =>
                    backup'[p] = backup[p] /\ (p \in litter' => p \in litter)
         ,
         file'[Legacy] = file[Legacy]
  PROVE  Holds(w)'
BY DEF StoreInv, Holds, Committing

\* A call that ends leaves nothing of its own behind.
LEMMA ReturnInv ==
  ASSUME StoreInv, NEW w \in Writers, Return(w), temp' = [temp EXCEPT ![w] = None],
         litter' \in {litter, litter \cup ({temp[w]} \ {None})}, litter' # {} => stops' > 0,
         UNCHANGED <<file, backup, replaced, reader, calls, edits>>,
         likely' \in [Paths -> SUBSET Entries], synced' \in [Paths -> SUBSET Docs],
         settled' \in [Paths -> Entries],
         \A p \in Paths : Durable(p)' /\ synced[p] \subseteq synced'[p],
         stops' \in 0..MaxStops, occupied' \in [Readers -> SUBSET Paths]
  PROVE  StoreInv'
<1> USE DEF Return, Unlock
<1>1. writer' = [writer EXCEPT ![w] = Idle] /\ Idle.pc = "idle" /\ ConfigTypeOK
  BY DEF Idle, StoreInv
<1>2. writer'[w] = Idle /\ \A v \in Writers : v # w => writer'[v] = writer[v]
  BY <1>1 DEF ConfigTypeOK
<1>3. ConfigTypeOK'
  BY <1>1, ConfigAssumption DEF ConfigTypeOK, Idle, CallStates, Entries, Calling
<1>4. ASSUME NEW v \in Writers PROVE Locked(v)' /\ Shape(v)' /\ Temp(v)'
  <2>1. CASE v = w
    BY <1>1, <1>2, <2>1, ConfigAssumption DEF Locked, Shape, Temp, Holding, Committing, ConfigTypeOK
  <2>2. CASE v # w
    <3>1. Locked(v) /\ Shape(v) /\ Temp(v)
      BY DEF StoreInv
    <3>2. Locked(v)'
      BY <1>1, <1>2, <2>2, <3>1, ConfigAssumption DEF Locked, Shape, Selections, ConfigTypeOK
    <3> QED
      BY <1>1, <1>2, <2>2, <3>1, <3>2 DEF Shape, Temp, ConfigTypeOK
  <2> QED
    BY <2>1, <2>2
<1>5. ASSUME NEW v \in Writers PROVE Holds(v)'
  <2>1. CASE v = w
    BY <1>2, <2>1 DEF Holds, Committing, Idle
  <2>2. CASE v # w
    <3>1. temp[w] # None => writer[w].pc \in Holding /\ temp[w] = writer[w].sel.path
      BY DEF StoreInv, Temp, Holding, Committing
    <3>2. writer[v].pc \in {"check"} \cup Committing => writer[v].pc \in Holding
      BY DEF Holding
    <3>3. writer[v].pc \in {"check"} \cup Committing =>
            (writer[v].sel.path \in litter' => writer[v].sel.path \in litter)
      BY <2>2, <3>1, <3>2, LockOwner
    <3>4. writer[v].pc \in Holding => writer[v].sel.path \in Paths
      BY LockOwner
    <3> QED
      BY <1>2, <2>2, <3>2, <3>3, <3>4, HoldsFrame
  <2> QED
    BY <2>1, <2>2
<1> QED
  BY <1>3, <1>4, <1>5 DEF StoreInv

\* The others, when one call takes a step that leaves their paths alone.
LEMMA OthersInv ==
  ASSUME StoreInv, NEW w \in Writers,
         \A v \in Writers \ {w} :
           /\ writer'[v] = writer[v] /\ temp'[v] = temp[v]
           /\ guard = v => guard' = v
           /\ \A p \in Paths : lock'[p] = v <=> lock[p] = v,
         \A p \in Paths : p = writer[w].sel.path \/ file'[p] = file[p],
         \A p \in Paths : /\ backup[p] \subseteq backup'[p] /\ synced[p] \subseteq synced'[p]
                          /\ backup'[p] = backup[p] \/ p = writer[w].sel.path,
         UNCHANGED litter,
         UNCHANGED file \/ UNCHANGED backup,
         UNCHANGED <<file, backup>> \/ writer[w].pc \in Holding,
         UNCHANGED file \/ file'[Legacy] = file[Legacy]
  PROVE  \A v \in Writers \ {w} : Locked(v)' /\ Shape(v)' /\ Temp(v)' /\ Holds(v)'
<1> SUFFICES ASSUME NEW v \in Writers, v # w
             PROVE  Locked(v)' /\ Shape(v)' /\ Temp(v)' /\ Holds(v)'
  OBVIOUS
<1>1. Locked(v) /\ Shape(v) /\ Temp(v)
  BY DEF StoreInv
<1>2. writer'[v] = writer[v] /\ temp'[v] = temp[v]
  OBVIOUS
<1>3. Locked(v)'
  <2>1. writer[v].pc \in Holding => writer[v].sel.path \in Paths
    BY LockOwner
  <2> QED
    BY <1>1, <1>2, <2>1 DEF Locked
<1>4. Shape(v)' /\ Temp(v)'
  BY <1>1, <1>2 DEF Shape, Temp
<1>5. Holds(v)'
  <2>1. writer[v].pc \in {"check"} \cup Committing => writer[v].pc \in Holding
    BY DEF Holding
  <2>2. writer[v].pc \in Holding /\ writer[w].pc \in Holding =>
          writer[v].sel.path # writer[w].sel.path
    BY LockOwner
  <2>3. writer[v].pc \in Holding => writer[v].sel.path \in Paths
    BY LockOwner
  <2> QED
    BY <1>2, <2>1, <2>2, <2>3, HoldsFrame
<1> QED
  BY <1>3, <1>4, <1>5

\* The steps that change nothing on the disk.
LEMMA MoveInv ==
  ASSUME StoreInv, NEW w \in Writers, ConfigTypeOK', UNCHANGED <<disks, history, stops>>,
         \A v \in Writers \ {w} :
           /\ writer'[v] = writer[v]
           /\ guard = v => guard' = v
           /\ \A p \in Paths : lock'[p] = v <=> lock[p] = v,
         Locked(w)', Shape(w)', Temp(w)', Holds(w)'
  PROVE  StoreInv'
<1> USE DEF disks, history
<1>1. \A v \in Writers \ {w} : Locked(v)' /\ Shape(v)' /\ Temp(v)' /\ Holds(v)'
  BY OthersInv
<1>2. \A p \in Paths : Durable(p)'
  BY DEF StoreInv, Durable
<1> QED
  BY <1>1, <1>2 DEF StoreInv

LEMMA CallInv ==
  ASSUME StoreInv, NEW w \in Writers, Call(w), occupied' \in [Readers -> SUBSET Paths]
  PROVE  StoreInv'
<1> USE DEF Call, locks
<1>1. writer[w].pc = "idle" /\ ConfigTypeOK /\ Locked(w) /\ Temp(w)
  BY DEF StoreInv
<1> calls' \in 0..MaxCalls
  <2>1. MaxCalls \in Nat
    BY ConfigAssumption
  <2>2. calls \in 0..MaxCalls
    BY <1>1 DEF ConfigTypeOK
  <2>3. calls < MaxCalls /\ calls' = calls + 1
    OBVIOUS
  <2> HIDE DEF Call
  <2> QED
    BY <2>1, <2>2, <2>3
<1> DEFINE Begun == [pc : {"look", "first"}, kind : {"init", "edit"}, call : Calls,
                     expect : [path : Paths, doc : Docs] \cup {None}, want : Docs, sel : {None},
                     old : {None}, raced : SUBSET Paths]
<1>2. \E x \in Begun : writer' = [writer EXCEPT ![w] = x]
  <2>1. PICK c \in Calls :
          \/ writer' = [writer EXCEPT ![w] =
               [Idle EXCEPT !.pc = "look", !.call = c, !.want = Seed]]
          \/ \E p \in Paths, new \in Results :
               /\ file[p] # None
               /\ writer' = [writer EXCEPT ![w] =
                    [Idle EXCEPT !.pc = "first", !.kind = "edit", !.call = c,
                                 !.expect = [path |-> p, doc |-> file[p]], !.want = new]]
    OBVIOUS
  <2>2. CASE writer' = [writer EXCEPT ![w] = [Idle EXCEPT !.pc = "look", !.call = c, !.want = Seed]]
    <3>1. Seed \in Docs
      BY ConfigAssumption
    <3> QED
      BY <2>2, <3>1 DEF Idle
  <2>3. ASSUME NEW p \in Paths, NEW new \in Results, file[p] # None,
               writer' = [writer EXCEPT ![w] =
                    [Idle EXCEPT !.pc = "first", !.kind = "edit", !.call = c,
                                 !.expect = [path |-> p, doc |-> file[p]], !.want = new]]
        PROVE  \E x \in Begun : writer' = [writer EXCEPT ![w] = x]
    <3>1. new \in Docs /\ file[p] \in Docs
      BY <1>1, <2>3, ConfigAssumption DEF ConfigTypeOK, Entries
    <3> QED
      BY <2>3, <3>1 DEF Idle
  <2> QED
    BY <2>1, <2>2, <2>3
<1>3. ConfigTypeOK'
  <2>1. Begun \subseteq CallStates
    BY DEF CallStates, Calling, Entries
  <2> QED
    BY <1>1, <1>2, <2>1 DEF ConfigTypeOK, disks, history
<1>4. Locked(w)' /\ Shape(w)' /\ Temp(w)' /\ Holds(w)'
  BY <1>1, <1>2 DEF Locked, Shape, Temp, Holds, disks, Holding, Committing, ConfigTypeOK
<1> QED
  BY <1>1, <1>2, <1>3, <1>4, MoveInv DEF ConfigTypeOK

LEMMA SelectedType ==
  ASSUME StoreInv, NEW w \in Writers, writer[w].pc # "idle"
  PROVE  writer[w].call \in Calls /\ writer[w].call.path \in Paths \cup {Automatic} /\ Selected(w) \in Selections
<1>1. writer[w].call \in Calls
  BY DEF StoreInv, Shape
<1>2. writer[w].call.path \in Paths \cup {Automatic}
  BY <1>1, ConfigAssumption
<1> QED
  BY <1>1, <1>2, ResolveType DEF Selected

\* A call that fails or is done with, its writer alive.
LEMMA EndInv ==
  ASSUME StoreInv, NEW w \in Writers, Return(w), occupied' \in [Readers -> SUBSET Paths],
         \/ temp' = [temp EXCEPT ![w] = None]
         \/ temp' = temp /\ writer[w].pc \notin {"again", "publish"},
         UNCHANGED <<file, litter, backup, likely, synced, reader, bounds, history>>
  PROVE  StoreInv'
<1> USE DEF bounds
<1>1. ConfigTypeOK /\ Temp(w) /\ (litter # {} => stops > 0)
  BY DEF StoreInv
<1>2. temp' = [temp EXCEPT ![w] = None]
  BY <1>1 DEF ConfigTypeOK, Temp
<1>3. stops' \in 0..MaxStops
  BY <1>1 DEF ConfigTypeOK
<1>4. /\ UNCHANGED <<file, backup, replaced, reader, calls, edits>>
      /\ likely' \in [Paths -> SUBSET Entries] /\ synced' \in [Paths -> SUBSET Docs]
      /\ settled' \in [Paths -> Entries]
  BY <1>1 DEF history, ConfigTypeOK
<1>5. litter' \in {litter, litter \cup ({temp[w]} \ {None})} /\ (litter' # {} => stops' > 0)
  BY <1>1
<1>6. \A p \in Paths : Durable(p)' /\ synced[p] \subseteq synced'[p]
  BY DEF StoreInv, Durable, history
<1> QED
  BY <1>2, <1>3, <1>4, <1>5, <1>6, ReturnInv

\* What is assigned to a call in most steps.
LEMMA GotoType ==
  ASSUME writer \in [Writers -> CallStates], NEW w \in Writers, NEW pc \in Calling,
         writer' = [writer EXCEPT ![w].pc = pc]
  PROVE  /\ writer' \in [Writers -> CallStates]
         /\ \A v \in Writers \ {w} : writer'[v] = writer[v]
         /\ writer'[w].pc = pc
         /\ writer'[w].call = writer[w].call /\ writer'[w].want = writer[w].want
         /\ writer'[w].kind = writer[w].kind /\ writer'[w].sel = writer[w].sel
         /\ writer'[w].old = writer[w].old /\ writer'[w].expect = writer[w].expect
         /\ writer'[w].raced = writer[w].raced
<1>1. writer[w] \in CallStates
  OBVIOUS
<1>2. [writer[w] EXCEPT !.pc = pc] \in CallStates
  BY <1>1 DEF CallStates
<1>3. writer' = [writer EXCEPT ![w] = [writer[w] EXCEPT !.pc = pc]]
  OBVIOUS
<1>4. writer' \in [Writers -> CallStates]
  BY <1>2, <1>3
<1> QED
  BY <1>1, <1>3, <1>4 DEF CallStates

Early == {"snap", "confirm", "first", "guard", "second", "target"}

\* The steps of a call before it asks for the lock of its target.
LEMMA EarlyInv ==
  ASSUME StoreInv, NEW w \in Writers, occupied' \in [Readers -> SUBSET Paths],
         writer' \in [Writers -> CallStates], \A v \in Writers \ {w} : writer'[v] = writer[v],
         writer[w].pc \notin {"idle"} \cup Holding,
         writer'[w].call = writer[w].call, writer'[w].want = writer[w].want,
         writer'[w].pc \in Early,
         writer'[w].pc \in {"snap", "guard", "second", "target"} => writer'[w].sel \in Selections,
         writer'[w].pc \in {"second", "target"} /\ writer[w].call.guarded => guard' = w,
         guard' = guard \/ (guard = None /\ guard' = w),
         UNCHANGED <<disks, lock, reader, bounds, history>>
  PROVE  StoreInv'
<1> USE DEF bounds
<1>1. ConfigTypeOK /\ Locked(w) /\ Temp(w) /\ Shape(w)
  BY DEF StoreInv
<1>2. ConfigTypeOK'
  BY <1>1 DEF ConfigTypeOK, disks, history
<1>3. Locked(w)' /\ Shape(w)' /\ Temp(w)' /\ Holds(w)'
  <2>1. writer'[w].pc \notin Holding
    BY DEF Early, Holding, Committing
  <2>2. Locked(w)'
    BY <1>1, <2>1 DEF Locked
  <2>3. Shape(w)'
    BY <1>1, <2>1 DEF Shape, Early, Holding, Committing
  <2>4. Temp(w)'
    BY <1>1 DEF Temp, disks, Early, Holding, Committing
  <2>5. Holds(w)'
    BY <2>1 DEF Holds, Holding, Committing
  <2> QED
    BY <2>2, <2>3, <2>4, <2>5
<1>4. \A v \in Writers \ {w} :
        /\ writer'[v] = writer[v] /\ (guard = v => guard' = v)
        /\ \A p \in Paths : lock'[p] = v <=> lock[p] = v
  BY ConfigAssumption
<1> QED
  BY <1>2, <1>3, <1>4, MoveInv

\* The same of a step that selects, and of one that does not.
LEMMA EarlySelect ==
  ASSUME StoreInv, NEW w \in Writers, occupied' \in [Readers -> SUBSET Paths],
         NEW pc \in Early, NEW s \in Selections,
         writer' = [writer EXCEPT ![w].pc = pc, ![w].sel = s],
         writer[w].pc \notin {"idle"} \cup Holding,
         pc \in {"second", "target"} /\ writer[w].call.guarded => guard = w,
         UNCHANGED <<disks, locks, reader, bounds, history>>
  PROVE  StoreInv'
<1>1. writer \in [Writers -> CallStates] /\ pc \in Calling
  BY DEF StoreInv, ConfigTypeOK, Calling, Early
<1>2. [writer[w] EXCEPT !.pc = pc, !.sel = s] \in CallStates
  BY <1>1, ZenonT(30) DEF CallStates
<1>3. /\ writer' \in [Writers -> CallStates]
      /\ \A v \in Writers \ {w} : writer'[v] = writer[v]
      /\ writer'[w] = [writer[w] EXCEPT !.pc = pc, !.sel = s]
  BY <1>1, <1>2
<1>4. /\ writer'[w].pc = pc /\ writer'[w].sel = s
      /\ writer'[w].call = writer[w].call /\ writer'[w].want = writer[w].want
  BY <1>1, <1>3 DEF CallStates
<1>5. UNCHANGED <<disks, lock, reader, bounds, history>> /\ guard' = guard
  BY DEF locks
<1> QED
  BY <1>3, <1>4, <1>5, EarlyInv

LEMMA EarlyGoto ==
  ASSUME StoreInv, NEW w \in Writers, occupied' \in [Readers -> SUBSET Paths],
         NEW pc \in Early \ {"snap", "guard", "target"}, Goto(w, pc),
         writer[w].pc \notin {"idle"} \cup Holding,
         pc = "second" => writer[w].pc = "guard" /\ guard' = w,
         guard' = guard \/ (guard = None /\ guard' = w),
         UNCHANGED <<disks, lock, reader, bounds, history>>
  PROVE  StoreInv'
<1>1. writer \in [Writers -> CallStates] /\ pc \in Calling
  BY DEF StoreInv, ConfigTypeOK, Calling, Early
<1>2. /\ writer' \in [Writers -> CallStates]
      /\ \A v \in Writers \ {w} : writer'[v] = writer[v]
      /\ writer'[w].pc = pc /\ writer'[w].sel = writer[w].sel
      /\ writer'[w].call = writer[w].call /\ writer'[w].want = writer[w].want
  BY <1>1, GotoType DEF Goto
<1>3. pc \in {"snap", "guard", "second", "target"} => writer[w].sel \in Selections
  BY DEF StoreInv, Shape
<1> QED
  BY <1>2, <1>3, EarlyInv

LEMMA LookInv ==
  ASSUME StoreInv, NEW w \in Writers, Look(w), occupied' \in [Readers -> SUBSET Paths]
  PROVE  StoreInv'
<1>1. /\ writer[w].pc = "look" /\ writer \in [Writers -> CallStates]
      /\ Selected(w) \in Selections
      /\ UNCHANGED <<disks, locks, reader, bounds, history>>
  BY SelectedType DEF StoreInv, ConfigTypeOK, Look
<1>2. {"snap", "first"} \subseteq Early /\ "look" \notin {"idle"} \cup Holding
  BY DEF Early, Holding, Committing
<1>3. CASE writer' = [writer EXCEPT ![w].pc = "snap", ![w].sel = Selected(w)]
  BY <1>1, <1>2, <1>3, EarlySelect
<1>4. CASE writer' = [writer EXCEPT ![w].pc = "first"]
  <2>1. Goto(w, "first") /\ UNCHANGED <<guard, lock>>
    BY <1>1, <1>4 DEF Goto, locks
  <2> QED
    BY <1>1, <1>2, <2>1, EarlyGoto
<1> QED
  BY <1>3, <1>4 DEF Look, Goto

LEMMA SnapInv ==
  ASSUME StoreInv, NEW w \in Writers, Snap(w), occupied' \in [Readers -> SUBSET Paths]
  PROVE  StoreInv'
<1>1. /\ writer[w].pc = "snap" /\ writer \in [Writers -> CallStates]
      /\ UNCHANGED <<disks, reader, bounds, history>>
  BY DEF StoreInv, ConfigTypeOK, Snap
<1>2. {"confirm", "first"} \subseteq Early /\ "snap" \notin {"idle"} \cup Holding
  BY DEF Early, Holding, Committing
<1>3. CASE Return(w)
  BY <1>1, <1>3, EndInv DEF disks
<1>4. ASSUME NEW pc \in {"confirm", "first"}, Goto(w, pc), UNCHANGED locks
      PROVE  StoreInv'
  BY <1>1, <1>2, <1>4, EarlyGoto DEF locks
<1> QED
  BY <1>3, <1>4 DEF Snap

LEMMA ConfirmInv ==
  ASSUME StoreInv, NEW w \in Writers, Confirm(w), occupied' \in [Readers -> SUBSET Paths]
  PROVE  StoreInv'
BY EndInv DEF Confirm, disks

LEMMA FirstInv ==
  ASSUME StoreInv, NEW w \in Writers, First(w), occupied' \in [Readers -> SUBSET Paths]
  PROVE  StoreInv'
<1>1. /\ writer[w].pc = "first" /\ writer \in [Writers -> CallStates]
      /\ Selected(w) \in Selections
      /\ UNCHANGED <<disks, locks, reader, bounds, history>>
  BY SelectedType DEF StoreInv, ConfigTypeOK, First
<1>2. PICK pc \in {"guard", "second"} :
        /\ writer' = [writer EXCEPT ![w].pc = pc, ![w].sel = Selected(w)]
        /\ pc = "second" => ~writer[w].call.guarded
  BY DEF First
<1>3. pc \in Early /\ "first" \notin {"idle"} \cup Holding
  BY DEF Early, Holding, Committing
<1> QED
  BY <1>1, <1>2, <1>3, EarlySelect

LEMMA GuardInv ==
  ASSUME StoreInv, NEW w \in Writers, Guard(w), occupied' \in [Readers -> SUBSET Paths]
  PROVE  StoreInv'
<1>1. /\ writer[w].pc = "guard" /\ writer \in [Writers -> CallStates] /\ writer[w].sel \in Selections
      /\ guard = None /\ guard' = w
      /\ UNCHANGED <<disks, lock, reader, bounds, history>>
  BY DEF StoreInv, ConfigTypeOK, Shape, Guard
<1>2. Goto(w, "second")
  BY DEF Guard
<1>3. "second" \in Early /\ "guard" \notin {"idle"} \cup Holding
  BY DEF Early, Holding, Committing
<1> QED
  BY <1>1, <1>2, <1>3, EarlyGoto

LEMMA SecondInv ==
  ASSUME StoreInv, NEW w \in Writers, Second(w), occupied' \in [Readers -> SUBSET Paths]
  PROVE  StoreInv'
<1>1. /\ writer[w].pc = "second" /\ writer \in [Writers -> CallStates] /\ Selected(w) \in Selections
      /\ writer[w].call.guarded => guard = w
      /\ UNCHANGED <<disks, reader, bounds, history>>
  BY SelectedType DEF StoreInv, ConfigTypeOK, Locked, Second
<1>2. CASE Return(w)
  BY <1>1, <1>2, EndInv DEF disks
<1>3. CASE /\ writer' = [writer EXCEPT ![w].pc = "target", ![w].sel = Selected(w)]
           /\ UNCHANGED locks
  <2>1. "target" \in Early /\ "second" \notin {"idle"} \cup Holding
    BY DEF Early, Holding, Committing
  <2> QED
    BY <1>1, <1>3, <2>1, EarlySelect
<1> QED
  BY <1>2, <1>3 DEF Second

LEMMA LockInv ==
  ASSUME StoreInv, NEW w \in Writers, Lock(w), occupied' \in [Readers -> SUBSET Paths]
  PROVE  StoreInv'
<1> DEFINE p == writer[w].sel.path
<1>1. /\ writer[w].pc = "target" /\ ConfigTypeOK /\ writer[w].sel \in Selections /\ p \in Paths
      /\ Locked(w) /\ Shape(w) /\ Temp(w) /\ lock[p] = None /\ (litter # {} => stops > 0)
      /\ UNCHANGED <<file, temp, litter, backup, reader, bounds, history>>
  BY DEF StoreInv, Shape, Selections, Lock
<1>2. CASE Return(w) /\ UNCHANGED <<likely, synced>>
  BY <1>1, <1>2, EndInv
<1>3. CASE /\ lock' = [lock EXCEPT ![p] = w] /\ Goto(w, "third")
           /\ likely' = [likely EXCEPT ![p] = {file[p]}]
           /\ synced' = [synced EXCEPT ![p] = backup[p]]
           /\ UNCHANGED guard
  <2>1. \A q \in Paths : synced[q] \subseteq backup[q] /\ Durable(q)
    BY DEF StoreInv, Durable
  <2>2. /\ writer' \in [Writers -> CallStates]
        /\ \A v \in Writers \ {w} : writer'[v] = writer[v]
        /\ writer'[w].pc = "third" /\ writer'[w].sel = writer[w].sel
        /\ writer'[w].call = writer[w].call /\ writer'[w].want = writer[w].want
    BY <1>1, <1>3, GotoType DEF Goto, Calling, ConfigTypeOK
  <2>3. ConfigTypeOK'
    BY <1>1, <1>3, <2>2 DEF ConfigTypeOK, bounds, history
  <2>4. \A q \in Paths : lock'[q] = IF q = p THEN w ELSE lock[q]
    BY <1>1, <1>3 DEF ConfigTypeOK
  <2>5. Locked(w)'
    BY <1>1, <1>3, <2>2, <2>4 DEF Locked, Holding, Committing
  <2>6. Shape(w)' /\ Temp(w)' /\ Holds(w)'
    BY <1>1, <2>2 DEF Shape, Temp, Holds, Holding, Committing
  <2>7. \A v \in Writers \ {w} : Locked(v)' /\ Shape(v)' /\ Temp(v)' /\ Holds(v)'
    <3>1. \A q \in Paths : synced[q] \subseteq synced'[q]
      BY <1>1, <1>3, <2>1 DEF ConfigTypeOK
    <3>2. \A v \in Writers \ {w} : \A q \in Paths : lock'[q] = v <=> lock[q] = v
      BY <1>1, <2>4, ConfigAssumption
    <3> QED
      BY <1>1, <1>3, <2>2, <3>1, <3>2, OthersInv
  <2>8. \A q \in Paths : Durable(q)'
    BY <1>1, <1>3, <2>1 DEF Durable, history, ConfigTypeOK
  <2> QED
    BY <1>1, <2>3, <2>5, <2>6, <2>7, <2>8 DEF StoreInv, bounds
<1> QED
  BY <1>2, <1>3 DEF Lock

LEMMA ThirdInv ==
  ASSUME StoreInv, NEW w \in Writers, Third(w), occupied' \in [Readers -> SUBSET Paths]
  PROVE  StoreInv'
<1>1. /\ writer[w].pc = "third" /\ ConfigTypeOK /\ Locked(w) /\ Shape(w) /\ Temp(w)
      /\ Selected(w) \in Selections /\ writer[w].sel \in Selections
      /\ UNCHANGED <<disks, reader, bounds, history>>
  BY SelectedType DEF StoreInv, Third, Shape, Holding
<1>2. CASE Return(w)
  BY <1>1, <1>2, EndInv DEF disks
<1>3. ASSUME NEW pc \in {"read", "check"}, Selected(w).path = writer[w].sel.path,
             IF pc = "read" THEN Selected(w).is = "exists"
             ELSE Selected(w).is = "missing" /\ writer[w].kind = "init",
             writer' = [writer EXCEPT ![w].pc = pc, ![w].sel = Selected(w)], UNCHANGED locks
      PROVE  StoreInv'
  <2>1. pc \in Calling /\ pc \in Holding \ {"third"} /\ pc \notin Committing
    BY DEF Calling, Holding, Committing
  <2>2. [writer[w] EXCEPT !.pc = pc, !.sel = Selected(w)] \in CallStates
    <3>1. writer[w] \in CallStates
      BY <1>1 DEF ConfigTypeOK
    <3> QED
      BY <1>1, <2>1, <3>1 DEF CallStates
  <2>3. /\ writer' \in [Writers -> CallStates]
        /\ \A v \in Writers \ {w} : writer'[v] = writer[v]
        /\ writer'[w] = [writer[w] EXCEPT !.pc = pc, !.sel = Selected(w)]
    BY <1>1, <1>3, <2>2 DEF ConfigTypeOK
  <2>4. /\ writer'[w].pc = pc /\ writer'[w].sel = Selected(w)
        /\ writer'[w].call = writer[w].call /\ writer'[w].want = writer[w].want
        /\ writer'[w].kind = writer[w].kind
    BY <1>1, <2>3 DEF CallStates, ConfigTypeOK
  <2>5. ConfigTypeOK'
    BY <1>1, <1>3, <2>3 DEF ConfigTypeOK, bounds, disks, locks, history
  <2>6. Locked(w)'
    BY <1>1, <1>3, <2>1, <2>4 DEF Locked, locks, Holding
  <2>7. Shape(w)'
    BY <1>1, <1>3, <2>1, <2>4 DEF Shape, Committing
  <2>8. Temp(w)'
    BY <1>1, <2>1, <2>4 DEF Temp, disks, Committing
  <2>9. Holds(w)'
    <3>1. pc = "check" => Selected(w).path \notin litter /\ backup[Selected(w).path] = {}
      BY <1>3, <1>1, SelectedType, ResolveType DEF Selected, Evidence
    <3>2. writer'[w].pc \notin Committing /\ UNCHANGED <<litter, backup>>
      BY <1>1, <2>1, <2>4 DEF disks
    <3>3. writer'[w].pc = "check" => writer'[w].sel.path \notin litter' /\ backup'[writer'[w].sel.path] = {}
      BY <2>4, <3>1, <3>2
    <3> QED
      BY <3>2, <3>3 DEF Holds, Committing
  <2> QED
    BY <1>1, <1>3, <2>3, <2>5, <2>6, <2>7, <2>8, <2>9, MoveInv DEF locks, bounds
<1> QED
  <2>1. "read" # "check"
    OBVIOUS
  <2> QED
    BY <1>2, <1>3, <2>1 DEF Third

LEMMA ReadStepInv ==
  ASSUME StoreInv, NEW w \in Writers, Read(w), occupied' \in [Readers -> SUBSET Paths]
  PROVE  StoreInv'
<1> DEFINE d == file[writer[w].sel.path]
<1>1. /\ writer[w].pc = "read" /\ ConfigTypeOK /\ Locked(w) /\ Shape(w) /\ Temp(w)
      /\ writer[w].sel \in Selections /\ writer[w].sel.path \in Paths /\ writer[w].sel.is = "exists"
      /\ UNCHANGED <<disks, reader, bounds, history>>
  BY DEF StoreInv, Read, Shape, Holding, Selections
<1>2. CASE Return(w)
  BY <1>1, <1>2, EndInv DEF disks
<1>3. CASE /\ d # None /\ writer[w].kind = "edit"
           /\ writer[w].expect = [path |-> writer[w].sel.path, doc |-> d]
           /\ writer' = [writer EXCEPT ![w].pc = "check", ![w].old = d] /\ UNCHANGED locks
  <2>1. "check" \in Calling /\ "check" \in Holding /\ "check" \notin Committing /\ d \in Docs
    BY <1>1, <1>3 DEF Calling, Holding, Committing, ConfigTypeOK, Entries
  <2>2. [writer[w] EXCEPT !.pc = "check", !.old = d] \in CallStates
    <3>1. writer[w] \in CallStates /\ d \in Entries
      BY <1>1, <2>1 DEF ConfigTypeOK, Entries
    <3> QED
      BY <2>1, <3>1 DEF CallStates
  <2>3. /\ writer' \in [Writers -> CallStates]
        /\ \A v \in Writers \ {w} : writer'[v] = writer[v]
        /\ writer'[w] = [writer[w] EXCEPT !.pc = "check", !.old = d]
    BY <1>1, <1>3, <2>2 DEF ConfigTypeOK
  <2>4. /\ writer'[w].pc = "check" /\ writer'[w].sel = writer[w].sel /\ writer'[w].old = d
        /\ writer'[w].call = writer[w].call /\ writer'[w].want = writer[w].want
        /\ writer'[w].kind = writer[w].kind /\ writer'[w].expect = writer[w].expect
    BY <1>1, <2>3 DEF CallStates, ConfigTypeOK
  <2>5. ConfigTypeOK'
    BY <1>1, <1>3, <2>3 DEF ConfigTypeOK, bounds, disks, locks, history
  <2>6. Locked(w)'
    BY <1>1, <1>3, <2>1, <2>4 DEF Locked, locks, Holding
  <2>7. Shape(w)'
    BY <1>1, <1>3, <2>1, <2>4 DEF Shape, Committing
  <2>8. Temp(w)'
    BY <1>1, <2>4 DEF Temp, disks
  <2>9. Holds(w)'
    BY <1>1, <1>3, <2>1, <2>4 DEF Holds, Committing
  <2> QED
    BY <1>1, <1>3, <2>3, <2>5, <2>6, <2>7, <2>8, <2>9, MoveInv DEF locks, bounds
<1> QED
  BY <1>2, <1>3 DEF Read

LEMMA FailInv ==
  ASSUME StoreInv, NEW w \in Writers, Fail(w), occupied' \in [Readers -> SUBSET Paths]
  PROVE  StoreInv'
BY EndInv DEF Fail

\* A comparison that succeeds.
LEMMA ProceedInv ==
  ASSUME StoreInv, NEW w \in Writers, NEW pc \in {"backup", "temp", "publish"},
         writer[w].pc \in {"check", "again"}, AsCompared(w), Proceed(w, pc),
         writer[w].pc = "check" => IF Replacing(w) THEN pc = "backup" ELSE pc = "temp",
         writer[w].pc = "again" => pc = "publish",
         UNCHANGED <<disks, locks, reader, bounds, history>>, occupied' \in [Readers -> SUBSET Paths]
  PROVE  StoreInv'
<1> DEFINE p == writer[w].sel.path
<1>1. /\ ConfigTypeOK /\ Locked(w) /\ Shape(w) /\ Temp(w) /\ Holds(w)
      /\ writer[w].sel \in Selections /\ p \in Paths /\ writer[w] \in CallStates
  BY DEF StoreInv, Shape, Holding, Committing, Selections, ConfigTypeOK
<1>2. /\ pc \in Calling /\ pc \in Committing /\ pc \in Holding /\ writer[w].pc \in Holding
      /\ pc # "settle"
  BY DEF Calling, Holding, Committing
<1>3. [writer[w] EXCEPT !.pc = pc, !.raced = {}] \in CallStates
  BY <1>1, <1>2 DEF CallStates
<1>4. /\ writer' \in [Writers -> CallStates]
      /\ \A v \in Writers \ {w} : writer'[v] = writer[v]
      /\ writer'[w] = [writer[w] EXCEPT !.pc = pc, !.raced = {}]
  BY <1>1, <1>3 DEF ConfigTypeOK, Proceed
<1>5. /\ writer'[w].pc = pc /\ writer'[w].sel = writer[w].sel /\ writer'[w].old = writer[w].old
      /\ writer'[w].call = writer[w].call /\ writer'[w].want = writer[w].want
      /\ writer'[w].kind = writer[w].kind /\ writer'[w].expect = writer[w].expect
      /\ writer'[w].raced = {}
  BY <1>1, <1>4 DEF CallStates
<1>6. ConfigTypeOK'
  BY <1>1, <1>4 DEF ConfigTypeOK, bounds, disks, locks, history
<1>7. Locked(w)'
  BY <1>1, <1>2, <1>5 DEF Locked, locks
<1>8. writer[w].kind = "edit" => writer[w].sel.is = "exists" /\ file[p] = writer[w].old
  BY <1>1, <1>2 DEF AsCompared, Shape, Committing, CallStates
<1>9. writer[w].kind = "init" => writer[w].sel.is = "missing" /\ writer[w].pc = "check" /\ pc = "temp"
  BY <1>1, <1>2 DEF AsCompared, Shape, Committing, CallStates, Replacing
<1>10. Shape(w)' /\ Temp(w)'
  <2>1. writer[w].kind \in {"init", "edit"} /\ writer[w].call \in Calls /\ writer[w].want \in Docs
    BY <1>1 DEF CallStates, Shape
  <2>2. writer[w].kind = "edit" =>
          writer[w].old \in Docs /\ writer[w].expect = [path |-> p, doc |-> writer[w].old]
    BY <1>1, <1>2, <2>1 DEF Shape, Committing
  <2>3. Shape(w)'
    BY <1>1, <1>2, <1>5, <1>8, <1>9, <2>1, <2>2 DEF Shape
  <2>4. Temp(w)'
    BY <1>1, <1>5, <1>9 DEF Temp, disks, CallStates
  <2> QED
    BY <2>3, <2>4
<1>11. Holds(w)'
  <2>1. writer[w].kind = "init" => p \notin litter /\ backup[p] = {}
    BY <1>1, <1>9 DEF Holds
  <2>2. writer[w].kind = "init" /\ writer[w].call.path = Automatic => p = Neutral /\ file[Legacy] = None
    BY <1>1, <1>9, SelectedType, ResolveType DEF AsCompared, Selected
  <2>3. writer[w].kind = "edit" /\ pc \in {"temp", "again", "publish"} => writer[w].old \in synced[p]
    BY <1>1, <1>8 DEF Holds, Replacing
  <2>4. writer[w].kind = "edit" => pc # "sync"
    OBVIOUS
  <2> QED
    BY <1>2, <1>5, <1>8, <2>1, <2>2, <2>3, <2>4 DEF Holds, disks
<1> QED
  BY <1>4, <1>6, <1>7, <1>10, <1>11, MoveInv DEF locks, bounds

LEMMA CheckInv ==
  ASSUME StoreInv, NEW w \in Writers, Check(w) \/ Again(w), occupied' \in [Readers -> SUBSET Paths]
  PROVE  StoreInv'
<1>1. CASE Fail(w)
  BY <1>1, FailInv
<1>2. CASE /\ writer[w].pc = "check" /\ AsCompared(w)
           /\ Proceed(w, IF Replacing(w) THEN "backup" ELSE "temp")
           /\ UNCHANGED <<disks, locks, reader, bounds, history>>
  <2>1. CASE Replacing(w)
    BY <1>2, <2>1, ProceedInv
  <2>2. CASE ~Replacing(w)
    BY <1>2, <2>2, ProceedInv
  <2> QED
    BY <2>1, <2>2
<1>3. CASE /\ writer[w].pc = "again" /\ AsCompared(w) /\ Proceed(w, "publish")
           /\ UNCHANGED <<disks, locks, reader, bounds, history>>
  BY <1>3, ProceedInv
<1> QED
  BY <1>1, <1>2, <1>3 DEF Check, Again

\* A step of a commit that leaves the document alone.
LEMMA WorkInv ==
  ASSUME StoreInv, NEW w \in Writers, NEW pc \in Committing, Goto(w, pc),
         writer[w].pc \in Committing,
         writer[w].kind = "init" => pc \notin {"backup", "sync", "again"},
         UNCHANGED <<file, litter, locks, reader, bounds, history>>,
         temp' \in [Writers -> Paths \cup {None}], backup' \in [Paths -> SUBSET Docs],
         likely' \in [Paths -> SUBSET Entries], synced' \in [Paths -> SUBSET Docs],
         \A v \in Writers \ {w} : temp'[v] = temp[v],
         \A q \in Paths : /\ backup[q] \subseteq backup'[q] /\ synced[q] \subseteq synced'[q]
                          /\ backup'[q] = backup[q] \/ q = writer[w].sel.path
                          /\ Durable(q)',
         Holds(w)', Temp(w)', occupied' \in [Readers -> SUBSET Paths]
  PROVE  StoreInv'
<1>1. /\ ConfigTypeOK /\ Locked(w) /\ Shape(w) /\ writer[w] \in CallStates
      /\ (litter # {} => stops > 0)
  BY DEF StoreInv, ConfigTypeOK
<1>2. pc \in Calling /\ pc \in Holding /\ writer[w].pc \in Holding
  BY DEF Calling, Holding, Committing
<1>3. /\ writer' \in [Writers -> CallStates]
      /\ \A v \in Writers \ {w} : writer'[v] = writer[v]
      /\ writer'[w].pc = pc
      /\ writer'[w].call = writer[w].call /\ writer'[w].want = writer[w].want
      /\ writer'[w].kind = writer[w].kind /\ writer'[w].sel = writer[w].sel
      /\ writer'[w].old = writer[w].old /\ writer'[w].expect = writer[w].expect
  BY <1>1, <1>2, GotoType DEF Goto, ConfigTypeOK
<1>4. ConfigTypeOK'
  BY <1>1, <1>3 DEF ConfigTypeOK, bounds, locks, history
<1>5. Locked(w)'
  BY <1>1, <1>2, <1>3 DEF Locked, locks
<1>6. Shape(w)'
  <2>1. pc # "read" /\ pc # "idle"
    BY DEF Committing
  <2>2. writer[w].sel \in Selections /\ writer[w].call \in Calls /\ writer[w].want \in Docs
    BY <1>1, <1>2 DEF Shape, Holding, Committing
  <2>3. IF writer[w].kind = "init" THEN writer[w].sel.is = "missing"
        ELSE /\ writer[w].sel.is = "exists" /\ writer[w].old \in Docs
             /\ writer[w].expect = [path |-> writer[w].sel.path, doc |-> writer[w].old]
    BY <1>1 DEF Shape
  <2> QED
    BY <1>3, <2>1, <2>2, <2>3 DEF Shape
<1>7. \A v \in Writers \ {w} : Locked(v)' /\ Shape(v)' /\ Temp(v)' /\ Holds(v)'
  BY <1>2, <1>3, OthersInv DEF locks
<1> QED
  BY <1>1, <1>4, <1>5, <1>6, <1>7 DEF StoreInv, bounds

LEMMA SaveInv ==
  ASSUME StoreInv, NEW w \in Writers, Save(w), occupied' \in [Readers -> SUBSET Paths]
  PROVE  StoreInv'
<1> DEFINE p == writer[w].sel.path
<1>1. /\ writer[w].pc = "backup" /\ ConfigTypeOK /\ Shape(w) /\ Temp(w) /\ Holds(w)
      /\ p \in Paths /\ writer[w].kind \in {"init", "edit"}
      /\ \A q \in Paths : Durable(q)
  BY DEF StoreInv, Save, Shape, Holding, Committing, Selections, ConfigTypeOK, CallStates
<1>2. CASE Fail(w)
  BY <1>2, FailInv
<1>3. CASE /\ backup' = [backup EXCEPT ![p] = @ \cup {writer[w].old}] /\ Goto(w, "sync")
           /\ UNCHANGED <<file, temp, litter, likely, synced, locks, reader, bounds, history>>
  <2>1. writer[w].kind = "edit" /\ writer[w].old \in Docs /\ "sync" \in Committing
    BY <1>1 DEF Shape, Committing
  <2>2. /\ backup' \in [Paths -> SUBSET Docs]
        /\ \A q \in Paths : /\ backup[q] \subseteq backup'[q]
                            /\ backup'[q] = backup[q] \/ q = p
        /\ writer[w].old \in backup'[p]
    BY <1>1, <1>3, <2>1 DEF ConfigTypeOK
  <2>3. \A q \in Paths : Durable(q)'
    BY <1>1, <1>3, <2>2 DEF Durable, history
  <2>4. /\ writer'[w].pc = "sync" /\ writer'[w].sel = writer[w].sel /\ writer'[w].old = writer[w].old
        /\ writer'[w].kind = "edit" /\ writer'[w].raced = writer[w].raced
    BY <1>1, <1>3, <2>1, GotoType DEF Goto, ConfigTypeOK, Calling
  <2>5. Holds(w)'
    BY <1>1, <1>3, <2>1, <2>2, <2>4 DEF Holds, Committing
  <2>6. Temp(w)'
    BY <1>1, <1>3, <2>4 DEF Temp
  <2> QED
    BY <1>1, <1>3, <2>1, <2>2, <2>3, <2>5, <2>6, WorkInv DEF ConfigTypeOK, Committing
<1> QED
  BY <1>2, <1>3 DEF Save

LEMMA SyncBackupInv ==
  ASSUME StoreInv, NEW w \in Writers, SyncBackup(w), occupied' \in [Readers -> SUBSET Paths]
  PROVE  StoreInv'
<1> DEFINE p == writer[w].sel.path
<1>1. /\ writer[w].pc = "sync" /\ ConfigTypeOK /\ Shape(w) /\ Temp(w) /\ Holds(w)
      /\ p \in Paths /\ writer[w].kind \in {"init", "edit"}
      /\ \A q \in Paths : Durable(q)
  BY DEF StoreInv, SyncBackup, Shape, Holding, Committing, Selections, ConfigTypeOK, CallStates
<1>2. CASE Fail(w)
  BY <1>2, FailInv
<1>3. CASE /\ synced' = [synced EXCEPT ![p] = backup[p]]
           /\ likely' = [likely EXCEPT ![p] = {file[p]}]
           /\ Goto(w, "temp")
           /\ UNCHANGED <<file, temp, litter, backup, locks, reader, bounds, history>>
  <2>1. writer[w].kind = "edit" /\ writer[w].old \in backup[p] /\ "temp" \in Committing
    BY <1>1 DEF Shape, Holds, Committing
  <2>2. /\ synced' \in [Paths -> SUBSET Docs] /\ likely' \in [Paths -> SUBSET Entries]
        /\ \A q \in Paths : synced[q] \subseteq synced'[q]
        /\ writer[w].old \in synced'[p]
    BY <1>1, <1>3, <2>1 DEF ConfigTypeOK, Durable
  <2>3. \A q \in Paths : Durable(q)'
    BY <1>1, <1>3 DEF Durable, history, ConfigTypeOK
  <2>4. /\ writer'[w].pc = "temp" /\ writer'[w].sel = writer[w].sel /\ writer'[w].old = writer[w].old
        /\ writer'[w].kind = "edit" /\ writer'[w].raced = writer[w].raced
    BY <1>1, <1>3, <2>1, GotoType DEF Goto, ConfigTypeOK, Calling
  <2>5. Holds(w)'
    BY <1>1, <1>3, <2>1, <2>2, <2>4 DEF Holds, Committing
  <2>6. Temp(w)'
    BY <1>1, <1>3, <2>4 DEF Temp
  <2> QED
    BY <1>1, <1>3, <2>1, <2>2, <2>3, <2>5, <2>6, WorkInv DEF ConfigTypeOK, Committing
<1> QED
  BY <1>2, <1>3 DEF SyncBackup

LEMMA WriteTempInv ==
  ASSUME StoreInv, NEW w \in Writers, WriteTemp(w), occupied' \in [Readers -> SUBSET Paths]
  PROVE  StoreInv'
<1> DEFINE p == writer[w].sel.path
<1>1. /\ writer[w].pc = "temp" /\ ConfigTypeOK /\ Shape(w) /\ Temp(w) /\ Holds(w)
      /\ p \in Paths /\ writer[w].kind \in {"init", "edit"}
      /\ \A q \in Paths : Durable(q)
  BY DEF StoreInv, WriteTemp, Shape, Holding, Committing, Selections, ConfigTypeOK, CallStates
<1>2. CASE Fail(w)
  BY <1>2, FailInv
<1>3. ASSUME NEW pc \in Committing, pc = (IF Replacing(w) THEN "again" ELSE "publish"),
             temp' = [temp EXCEPT ![w] = p], Goto(w, pc),
             UNCHANGED <<file, litter, backup, likely, synced, locks, reader, bounds, history>>
      PROVE  StoreInv'
  <2>1. /\ writer[w].kind = "init" => pc = "publish"
        /\ pc \in {"again", "publish"} /\ pc \in Calling
    BY <1>1, <1>3 DEF Shape, Committing, Replacing, Calling
  <2>2. /\ temp' \in [Writers -> Paths \cup {None}] /\ temp'[w] = p
        /\ \A v \in Writers \ {w} : temp'[v] = temp[v]
    BY <1>1, <1>3 DEF ConfigTypeOK
  <2>3. \A q \in Paths : Durable(q)'
    BY <1>1, <1>3 DEF Durable, history
  <2>4. /\ writer'[w].pc = pc /\ writer'[w].sel = writer[w].sel /\ writer'[w].old = writer[w].old
        /\ writer'[w].kind = writer[w].kind /\ writer'[w].raced = writer[w].raced
        /\ writer'[w].call = writer[w].call
    BY <1>1, <1>3, <2>1, GotoType DEF Goto, ConfigTypeOK
  <2>5. Holds(w)'
    BY <1>1, <1>3, <2>1, <2>4 DEF Holds, Committing
  <2>6. Temp(w)'
    BY <2>1, <2>2, <2>4 DEF Temp
  <2>7. writer[w].kind = "init" => pc \notin {"backup", "sync", "again"}
    BY <2>1
  <2>8. \A q \in Paths : /\ backup[q] \subseteq backup'[q] /\ synced[q] \subseteq synced'[q]
                         /\ backup'[q] = backup[q] \/ q = p
    BY <1>3
  <2>9. /\ backup' \in [Paths -> SUBSET Docs] /\ likely' \in [Paths -> SUBSET Entries]
        /\ synced' \in [Paths -> SUBSET Docs] /\ writer[w].pc \in Committing
    BY <1>1, <1>3 DEF ConfigTypeOK, Committing
  <2>10. UNCHANGED <<file, litter, locks, reader, bounds, history>>
    BY <1>3
  <2> QED
    BY <1>3, <2>2, <2>3, <2>5, <2>6, <2>7, <2>8, <2>9, <2>10, WorkInv
<1> QED
  <2>1. {"again", "publish"} \subseteq Committing
    BY DEF Committing
  <2>2. (IF Replacing(w) THEN "again" ELSE "publish") \in Committing
    BY <2>1
  <2> QED
    BY <1>2, <1>3, <2>2 DEF WriteTemp

LEMMA SettleInv ==
  ASSUME StoreInv, NEW w \in Writers, Settle(w), occupied' \in [Readers -> SUBSET Paths]
  PROVE  StoreInv'
<1> DEFINE p == writer[w].sel.path
<1>1. /\ writer[w].pc = "settle" /\ ConfigTypeOK /\ Shape(w) /\ Temp(w) /\ Holds(w)
      /\ p \in Paths /\ writer[w].want \in Docs /\ Return(w)
      /\ UNCHANGED <<file, temp, litter, backup, reader, bounds, replaced>>
      /\ \A q \in Paths : Durable(q)
      /\ (litter # {} => stops > 0)
  BY DEF StoreInv, Settle, Shape, Holding, Committing, Selections
<1>2. CASE UNCHANGED <<likely, synced, settled>>
  BY <1>1, <1>2, EndInv DEF history
<1>3. CASE /\ likely' = [likely EXCEPT ![p] = {file[p]}]
           /\ synced' = [synced EXCEPT ![p] = backup[p]]
           /\ settled' = [settled EXCEPT ![p] = IF p \in writer[w].raced THEN @ ELSE writer[w].want]
  <2>1. p \notin writer[w].raced => file[p] = writer[w].want
    BY <1>1 DEF Holds
  <2>2. /\ likely' \in [Paths -> SUBSET Entries] /\ synced' \in [Paths -> SUBSET Docs]
        /\ settled' \in [Paths -> Entries]
    BY <1>1, <1>3 DEF ConfigTypeOK, Entries
  <2>3. \A q \in Paths : Durable(q)' /\ synced[q] \subseteq synced'[q]
    BY <1>1, <1>3, <2>1 DEF Durable, ConfigTypeOK
  <2>4. temp' = [temp EXCEPT ![w] = None]
    BY <1>1 DEF ConfigTypeOK, Temp
  <2>5. stops' \in 0..MaxStops /\ UNCHANGED <<file, backup, replaced, reader, calls, edits>>
    BY <1>1 DEF ConfigTypeOK, bounds
  <2>6. litter' \in {litter, litter \cup ({temp[w]} \ {None})} /\ (litter' # {} => stops' > 0)
    BY <1>1 DEF bounds
  <2> QED
    BY <1>1, <2>2, <2>3, <2>4, <2>5, <2>6, ReturnInv
<1> QED
  BY <1>2, <1>3 DEF Settle

\* Others hear of a change at p by its being recorded in what they raced with.
LEMMA RacedType ==
  ASSUME ConfigTypeOK, NEW ws \in SUBSET Writers, NEW p \in Paths
  PROVE  /\ Raced(ws, p) \in [Writers -> CallStates]
         /\ \A v \in Writers :
              /\ Raced(ws, p)[v].pc = writer[v].pc /\ Raced(ws, p)[v].kind = writer[v].kind
              /\ Raced(ws, p)[v].call = writer[v].call /\ Raced(ws, p)[v].want = writer[v].want
              /\ Raced(ws, p)[v].sel = writer[v].sel /\ Raced(ws, p)[v].old = writer[v].old
              /\ Raced(ws, p)[v].expect = writer[v].expect
              /\ Raced(ws, p)[v].raced = IF v \in ws /\ writer[v].pc \in Committing
                                         THEN writer[v].raced \cup {p} ELSE writer[v].raced
<1>1. \A v \in Writers : writer[v] \in CallStates
  BY DEF ConfigTypeOK
<1>2. \A v \in Writers : [writer[v] EXCEPT !.raced = writer[v].raced \cup {p}] \in CallStates
  BY <1>1 DEF CallStates
<1>3. Raced(ws, p) \in [Writers -> CallStates]
  BY <1>1, <1>2 DEF Raced
<1>4. \A v \in Writers : Raced(ws, p)[v] =
        IF v \in ws /\ writer[v].pc \in Committing
        THEN [writer[v] EXCEPT !.raced = writer[v].raced \cup {p}] ELSE writer[v]
  BY DEF Raced
<1> QED
  BY <1>1, <1>3, <1>4 DEF CallStates

\* Of two calls with the automatic selection only one is past the guard.
LEMMA GuardOwner ==
  ASSUME StoreInv, NEW v \in Writers, NEW w \in Writers, v # w,
         writer[v].pc \in Holding, writer[w].pc \in Holding, writer[v].call.path = Automatic
  PROVE  ~writer[w].call.guarded
<1>1. writer[v].call \in Calls /\ (writer[v].call.guarded => guard = v)
  BY DEF StoreInv, Locked, Shape, Holding, Committing
<1>2. writer[w].call.guarded => guard = w
  BY DEF StoreInv, Locked
<1> QED
  BY <1>1, <1>2, ConfigAssumption

\* A change of one document, made by a call under its lock or by somebody else.
LEMMA ChangeInv ==
  ASSUME StoreInv, NEW p \in Paths, NEW ws \in SUBSET Writers, NEW w \in Writers,
         \A q \in Paths : q # p => file'[q] = file[q],
         writer'[w] = Raced(ws, p)[w], temp'[w] = temp[w],
         writer[w].pc \in Holding /\ writer[w].sel.path = p => w \in ws \/ writer[w].pc \notin Committing,
         w \notin ws => writer[w].pc \notin Committing \/ p # Legacy \/ writer[w].call.path # Automatic,
         UNCHANGED <<litter, backup, synced, locks>>
  PROVE  Locked(w)' /\ Shape(w)' /\ Temp(w)' /\ Holds(w)'
<1> DEFINE s == writer[w].sel.path
<1>1. /\ ConfigTypeOK /\ Locked(w) /\ Shape(w) /\ Temp(w) /\ Holds(w)
  BY DEF StoreInv
<1>2. /\ writer'[w].pc = writer[w].pc /\ writer'[w].kind = writer[w].kind
      /\ writer'[w].call = writer[w].call /\ writer'[w].want = writer[w].want
      /\ writer'[w].sel = writer[w].sel /\ writer'[w].old = writer[w].old
      /\ writer'[w].expect = writer[w].expect
      /\ writer'[w].raced = IF w \in ws /\ writer[w].pc \in Committing
                            THEN writer[w].raced \cup {p} ELSE writer[w].raced
  BY <1>1, RacedType
<1>3. Locked(w)' /\ Shape(w)' /\ Temp(w)'
  BY <1>1, <1>2 DEF Locked, Shape, Temp, locks
<1>4. writer[w].pc \in Committing => s \in Paths /\ writer[w].pc \in Holding
  BY <1>1 DEF Shape, Holding, Committing, Selections
<1>5. writer[w].pc \in Committing /\ s \notin writer'[w].raced => file'[s] = file[s] /\ s \notin writer[w].raced
  BY <1>2, <1>4
<1>6. writer[w].pc \in Committing /\ writer[w].call.path = Automatic =>
        \/ file'[Legacy] = file[Legacy] /\ writer[w].raced \subseteq writer'[w].raced
        \/ Legacy \in writer'[w].raced
  BY <1>2 DEF Paths
<1>7. Holds(w)'
  <2>1. \A pc : pc \in Committing \ {"settle"} \/ pc = "settle" => pc \in Committing
    BY DEF Committing
  <2>2. {"temp", "publish", "again", "sync", "settle"} \subseteq Committing
    BY DEF Committing
  <2> QED
    BY <1>1, <1>2, <1>5, <1>6, <2>1, <2>2 DEF Holds
<1> QED
  BY <1>3, <1>7

LEMMA PublishInv ==
  ASSUME StoreInv, NEW w \in Writers, Publish(w), occupied' \in [Readers -> SUBSET Paths]
  PROVE  StoreInv'
<1> DEFINE p == writer[w].sel.path
<1>1. /\ writer[w].pc = "publish" /\ ConfigTypeOK /\ Locked(w) /\ Shape(w) /\ Temp(w) /\ Holds(w)
      /\ p \in Paths /\ writer[w].kind \in {"init", "edit"} /\ writer[w].want \in Docs
      /\ writer[w].pc \in Holding /\ writer[w].sel \in Selections
      /\ \A q \in Paths : Durable(q)
      /\ (litter # {} => stops > 0)
  BY DEF StoreInv, Publish, Shape, Holding, Committing, Selections, ConfigTypeOK, CallStates
<1>2. CASE Fail(w)
  BY <1>2, FailInv
<1>3. CASE
        /\ MayPublish(w)
        /\ file' = [file EXCEPT ![p] = writer[w].want]
        /\ likely' = [likely EXCEPT ![p] = @ \cup {writer[w].want}]
        /\ replaced' = [replaced EXCEPT ![p] = @ \cup (IF p \in writer[w].raced THEN {} ELSE {file[p]} \ {None})]
        /\ settled' = [settled EXCEPT ![p] = None]
        /\ writer' = [Raced(Unaware(w, p), p) EXCEPT ![w].pc = "settle", ![w].raced = {}]
        /\ temp' = [temp EXCEPT ![w] = None]
        /\ UNCHANGED <<litter, backup, synced, locks, reader, bounds>>
  <2> DEFINE R == Raced(Unaware(w, p), p)
  <2>1. /\ R \in [Writers -> CallStates]
        /\ R[w].call = writer[w].call /\ R[w].want = writer[w].want /\ R[w].sel = writer[w].sel
        /\ R[w].kind = writer[w].kind /\ R[w].old = writer[w].old /\ R[w].expect = writer[w].expect
    <3>1. Unaware(w, p) \in SUBSET Writers
      BY DEF Unaware
    <3> QED
      BY <1>1, <3>1, RacedType
  <2> HIDE DEF R
  <2>2. [R[w] EXCEPT !.pc = "settle", !.raced = {}] \in CallStates
    <3>1. "settle" \in Calling /\ R[w] \in CallStates
      BY <2>1 DEF Calling
    <3> QED
      BY <3>1 DEF CallStates
  <2>3. writer' = [R EXCEPT ![w] = [R[w] EXCEPT !.pc = "settle", !.raced = {}]]
    BY <1>3 DEF R
  <2>4. /\ writer' \in [Writers -> CallStates]
        /\ \A v \in Writers \ {w} : writer'[v] = R[v]
        /\ writer'[w] = [R[w] EXCEPT !.pc = "settle", !.raced = {}]
    BY <2>1, <2>2, <2>3
  <2>5. /\ writer'[w].pc = "settle" /\ writer'[w].raced = {}
        /\ writer'[w].call = writer[w].call /\ writer'[w].want = writer[w].want
        /\ writer'[w].sel = writer[w].sel /\ writer'[w].kind = writer[w].kind
        /\ writer'[w].old = writer[w].old /\ writer'[w].expect = writer[w].expect
    BY <2>1, <2>4 DEF CallStates
  <2>6. /\ file' \in [Paths -> Entries] /\ likely' \in [Paths -> SUBSET Entries]
        /\ replaced' \in [Paths -> SUBSET Docs] /\ settled' \in [Paths -> Entries]
        /\ temp' \in [Writers -> Paths \cup {None}]
    BY <1>1, <1>3 DEF ConfigTypeOK, Entries
  <2>7. ConfigTypeOK'
    BY <1>1, <1>3, <2>4, <2>6 DEF ConfigTypeOK, bounds, locks
  <2>8. /\ file'[p] = writer[w].want /\ \A q \in Paths : q # p => file'[q] = file[q]
        /\ temp'[w] = None /\ \A v \in Writers : v # w => temp'[v] = temp[v]
    BY <1>1, <1>3 DEF ConfigTypeOK
  <2>9. Locked(w)' /\ Shape(w)' /\ Temp(w)' /\ Holds(w)'
    <3>1. Locked(w)'
      BY <1>1, <1>3, <2>5 DEF Locked, Holding, Committing, locks
    <3>2. Shape(w)'
      BY <1>1, <2>5 DEF Shape, Holding, Committing
    <3>3. Temp(w)' /\ Holds(w)'
      BY <2>5, <2>8 DEF Temp, Holds, Committing
    <3> QED
      BY <3>1, <3>2, <3>3
  <2>10. ASSUME NEW v \in Writers, v # w
         PROVE  Locked(v)' /\ Shape(v)' /\ Temp(v)' /\ Holds(v)'
    <3>1. writer'[v] = Raced(Unaware(w, p), p)[v] /\ temp'[v] = temp[v]
      BY <2>4, <2>8, <2>10 DEF R
    <3>2. writer[v].pc \in Holding => writer[v].sel.path # p
      BY <1>1, <2>10, LockOwner
    <3>3. v \in Unaware(w, p) \/ writer[w].call.guarded
      BY <1>1, <2>10 DEF Unaware, Locked
    <3>4. v \notin Unaware(w, p) => writer[v].pc \notin Committing \/ writer[v].call.path # Automatic
      <4>1. writer[v].pc \in Committing => writer[v].pc \in Holding
        BY DEF Holding
      <4> QED
        BY <1>1, <2>10, <3>3, <4>1, GuardOwner
    <3>5. Unaware(w, p) \in SUBSET Writers
      BY DEF Unaware
    <3> QED
      BY <1>1, <1>3, <2>8, <3>1, <3>2, <3>4, <3>5, ChangeInv
  <2>11. ASSUME NEW q \in Paths PROVE Durable(q)'
    <3>1. CASE q # p
      BY <1>1, <1>3, <3>1 DEF Durable, ConfigTypeOK
    <3>2. CASE q = p
      <4>1. p \notin writer[w].raced => {file[p]} \ {None} \subseteq synced[p]
        <5>1. CASE writer[w].kind = "init"
          BY <1>1, <1>3, <5>1 DEF Shape, MayPublish, Replacing, Committing
        <5>2. CASE writer[w].kind = "edit"
          BY <1>1, <5>2 DEF Holds, Committing
        <5> QED
          BY <1>1, <5>1, <5>2
      <4>2. replaced'[p] \subseteq synced[p]
        BY <1>1, <1>3, <4>1 DEF Durable, ConfigTypeOK
      <4>3. file'[p] \in likely'[p] /\ settled'[p] = None
        BY <1>1, <1>3 DEF ConfigTypeOK
      <4>4. synced'[p] = synced[p] /\ synced[p] \subseteq backup[p] /\ backup'[p] = backup[p]
        BY <1>1, <1>3 DEF Durable
      <4> QED
        BY <3>2, <4>2, <4>3, <4>4 DEF Durable
    <3> QED
      BY <3>1, <3>2
  <2> QED
    BY <1>1, <1>3, <2>7, <2>9, <2>10, <2>11 DEF StoreInv, bounds
<1> QED
  BY <1>2, <1>3 DEF Publish

LEMMA EditInv ==
  ASSUME StoreInv, NEW p \in Paths, Edit(p), occupied' \in [Readers -> SUBSET Paths]
  PROVE  StoreInv'
<1>1. /\ ConfigTypeOK /\ (litter # {} => stops > 0) /\ \A q \in Paths : Durable(q)
      /\ edits < MaxEdits /\ edits' = edits + 1 /\ writer' = Raced(Writers, p)
      /\ settled' = [settled EXCEPT ![p] = None]
      /\ UNCHANGED <<temp, litter, backup, synced, locks, reader, calls, stops, replaced>>
  BY DEF StoreInv, Edit
<1>2. PICK d \in Entries : /\ file' = [file EXCEPT ![p] = d]
                           /\ likely' = [likely EXCEPT ![p] = @ \cup {d}]
  BY ConfigAssumption DEF Edit, Entries
<1>3. edits' \in 0..MaxEdits
  <2>1. edits \in 0..MaxEdits /\ MaxEdits \in Nat
    BY <1>1, ConfigAssumption DEF ConfigTypeOK
  <2> QED
    BY <1>1, <2>1
<1>4. writer' \in [Writers -> CallStates]
  BY <1>1, RacedType
<1>5. ConfigTypeOK'
  BY <1>1, <1>2, <1>3, <1>4 DEF ConfigTypeOK, locks, Entries
<1>6. \A w \in Writers : Locked(w)' /\ Shape(w)' /\ Temp(w)' /\ Holds(w)'
  <2>1. \A q \in Paths : q # p => file'[q] = file[q]
    BY <1>1, <1>2 DEF ConfigTypeOK
  <2> QED
    BY <1>1, <2>1, ChangeInv
<1>7. \A q \in Paths : Durable(q)'
  BY <1>1, <1>2 DEF Durable, ConfigTypeOK
<1> QED
  BY <1>1, <1>5, <1>6, <1>7 DEF StoreInv

LEMMA ExpireInv ==
  ASSUME StoreInv, NEW w \in Writers, Expire(w), occupied' \in [Readers -> SUBSET Paths]
  PROVE  StoreInv'
BY FailInv DEF Expire

LEMMA DieInv ==
  ASSUME StoreInv, NEW w \in Writers, Die(w), occupied' \in [Readers -> SUBSET Paths]
  PROVE  StoreInv'
<1>1. /\ ConfigTypeOK /\ stops < MaxStops /\ stops' = stops + 1
      /\ litter' = litter \cup ({temp[w]} \ {None})
      /\ temp' = [temp EXCEPT ![w] = None] /\ Return(w)
      /\ UNCHANGED <<file, backup, likely, synced, reader, calls, edits, history>>
  BY DEF StoreInv, Die
<1>2. stops' \in 0..MaxStops /\ stops' > 0
  <2>1. stops \in 0..MaxStops /\ MaxStops \in Nat
    BY <1>1, ConfigAssumption DEF ConfigTypeOK
  <2> QED
    BY <1>1, <2>1
<1>3. /\ likely' \in [Paths -> SUBSET Entries] /\ synced' \in [Paths -> SUBSET Docs]
      /\ settled' \in [Paths -> Entries]
      /\ UNCHANGED <<file, backup, replaced, reader, calls, edits>>
  BY <1>1 DEF ConfigTypeOK, history
<1>4. \A p \in Paths : Durable(p)' /\ synced[p] \subseteq synced'[p]
  BY <1>1 DEF StoreInv, Durable, history
<1> QED
  BY <1>1, <1>2, <1>3, <1>4, ReturnInv

LEMMA PowerLossInv ==
  ASSUME StoreInv, PowerLoss, occupied' \in [Readers -> SUBSET Paths]
  PROVE  StoreInv'
<1>1. /\ ConfigTypeOK /\ stops < MaxStops /\ stops' = stops + 1
      /\ \A q \in Paths : Durable(q)
      /\ litter' \in SUBSET (litter \cup {p \in Paths : \E w \in Writers : temp[w] = p})
      /\ temp' = [w \in Writers |-> None]
      /\ likely' = [p \in Paths |-> {file'[p]}]
      /\ synced' = backup'
      /\ guard' = None
      /\ lock' = [p \in Paths |-> None]
      /\ writer' = [w \in Writers |-> Idle]
      /\ reader' = [r \in Readers |-> Quiet]
      /\ UNCHANGED <<calls, edits, history>>
  BY DEF StoreInv, PowerLoss
<1>2. file' \in [Paths -> Entries] /\ \A p \in Paths : file'[p] \in likely[p]
  BY DEF PowerLoss
<1>3. /\ backup' \in [Paths -> SUBSET Docs]
      /\ \A p \in Paths : synced[p] \subseteq backup'[p] /\ backup'[p] \subseteq backup[p]
  BY DEF PowerLoss
<1>4. stops' \in 0..MaxStops /\ stops' > 0
  <2>1. stops \in 0..MaxStops /\ MaxStops \in Nat
    BY <1>1, ConfigAssumption DEF ConfigTypeOK
  <2> QED
    BY <1>1, <2>1
<1>5. Idle \in CallStates /\ Idle.pc = "idle" /\ Quiet \in ReadStates
  BY DEF Idle, Quiet, CallStates, ReadStates, Entries
<1>6. /\ temp' \in [Writers -> Paths \cup {None}] /\ lock' \in [Paths -> Writers \cup {None}]
      /\ guard' \in Writers \cup {None} /\ likely' \in [Paths -> SUBSET Entries]
      /\ litter' \subseteq Paths
      /\ writer' \in [Writers -> CallStates] /\ reader' \in [Readers -> ReadStates]
  BY <1>1, <1>2, <1>5 DEF ConfigTypeOK
<1>7. ConfigTypeOK'
  BY <1>1, <1>2, <1>3, <1>4, <1>6 DEF ConfigTypeOK, history
<1>8. \A w \in Writers : writer'[w].pc = "idle" /\ temp'[w] = None
  BY <1>1, <1>5
<1>9. \A w \in Writers : Locked(w)' /\ Shape(w)' /\ Holds(w)' /\ Temp(w)'
  BY <1>1, <1>8, ConfigAssumption DEF Locked, Shape, Holds, Temp, Holding, Committing
<1>10. \A p \in Paths : Durable(p)'
  BY <1>1, <1>2, <1>3 DEF Durable, history
<1> QED
  BY <1>4, <1>7, <1>9, <1>10 DEF StoreInv

\* The steps of the hooks do not touch the store.
LEMMA ReadersInv ==
  ASSUME StoreInv, UNCHANGED <<disks, locks, writer, bounds, history>>,
         reader' \in [Readers -> ReadStates], occupied' \in [Readers -> SUBSET Paths]
  PROVE  StoreInv'
<1> USE DEF disks, locks, bounds, history
<1>1. ConfigTypeOK'
  BY DEF StoreInv, ConfigTypeOK
<1>2. \A w \in Writers : Locked(w)' /\ Shape(w)' /\ Holds(w)' /\ Temp(w)'
  BY DEF StoreInv, Locked, Shape, Holds, Temp
<1>3. \A p \in Paths : Durable(p)'
  BY DEF StoreInv, Durable
<1> QED
  BY <1>1, <1>2, <1>3 DEF StoreInv

\* Every step of the store leaves its invariant standing.
LEMMA WritersInv ==
  ASSUME StoreInv, occupied' \in [Readers -> SUBSET Paths],
         \/ \E w \in Writers : Begin(w) \/ Commit(w) \/ Die(w)
         \/ \E p \in Paths : Edit(p)
         \/ PowerLoss
  PROVE  StoreInv'
<1>1. ASSUME NEW w \in Writers, Begin(w) PROVE StoreInv'
  BY <1>1, CallInv, LookInv, SnapInv, ConfirmInv, FirstInv, GuardInv, SecondInv, LockInv,
     ThirdInv, ReadStepInv DEF Begin
<1>2. ASSUME NEW w \in Writers, Commit(w) PROVE StoreInv'
  BY <1>2, CheckInv, SaveInv, SyncBackupInv, WriteTempInv, PublishInv, SettleInv, ExpireInv
     DEF Commit
<1>3. ASSUME NEW w \in Writers, Die(w) PROVE StoreInv'
  BY <1>3, DieInv
<1> QED
  BY <1>1, <1>2, <1>3, EditInv, PowerLossInv

-----------------------------------------------------------------------------
(* The hooks.                                                                *)

\* Something that stays beside the path.
Remains(p) == p \in litter \/ backup[p] # {}

\* A temporary file that may still be published or removed.
Pending(p) == \E w \in Writers : temp[w] = p

Creating(p) ==
  \E w \in Writers : lock[p] = w /\ writer[w].kind = "init" /\ writer[w].pc \in {"temp", "publish"}

\* From now on the path has a document or evidence of one, unless it is missing
\* at some moment: removed by hand with nothing left behind.
Sure(p) == Remains(p) \/ (file[p] # None /\ ~Creating(p))

Passed(r, p)  == p \in occupied[r] => Sure(p)
Doubted(r, p) == p \in occupied[r] => Sure(p) \/ Pending(p)

\* What a hook knows at each step of its read.
Knows(r) ==
  /\ reader[r].at \in Paths
  /\ reader[r].env = Automatic => reader[r].at \in {Legacy, Neutral}
  /\ reader[r].pc = "read" => reader[r].first # None /\ reader[r].first.is = "exists"
  /\ reader[r].first = None =>
       /\ reader[r].env = Automatic /\ reader[r].at = Neutral => Passed(r, Legacy)
       /\ reader[r].pc = "list" => Doubted(r, reader[r].at)
  /\ reader[r].first # None /\ reader[r].first.is = "missing" =>
       /\ reader[r].first.path = Neutral /\ reader[r].env = Automatic
       /\ Passed(r, Legacy) /\ Passed(r, Neutral)
       /\ reader[r].pc = "list" /\ reader[r].at \in occupied[r] => Remains(reader[r].at)
       /\ reader[r].at = Neutral => Legacy \notin occupied[r]

ReadInv == \A r \in Readers : reader[r].pc \in Reading => Knows(r)

\* What a step may do to the remains at p, and who may begin to create there.
Careful(p) ==
  /\ p \in litter => p \in litter'
  /\ backup[p] \subseteq backup'[p]
  /\ \A v \in Writers :
       lock'[p] = v /\ writer'[v].kind = "init" /\ writer'[v].pc \in {"temp", "publish"} =>
         /\ lock[p] = v /\ writer[v].kind = "init"
         /\ \/ writer[v].pc = writer'[v].pc
            \/ writer[v].pc = "temp"
            \/ writer[v].pc = "check" /\ writer'[v].pc = "temp" /\ file[p] = None

\* Who creates at a path knows that it is free.
LEMMA PendingRemains ==
  ASSUME NEW p \in Paths
  PROVE  StoreInv /\ Pending(p) => Remains(p) \/ \E w \in Writers : lock[p] = w /\ writer[w].kind = "init" /\ writer[w].pc = "publish"
<1> SUFFICES ASSUME StoreInv, Pending(p)
             PROVE  Remains(p) \/ \E w \in Writers : lock[p] = w /\ writer[w].kind = "init" /\ writer[w].pc = "publish"
  OBVIOUS
<1>1. PICK w \in Writers : temp[w] = p
  BY DEF Pending
<1>2. writer[w].pc \in {"again", "publish"} /\ writer[w].sel.path = p
  BY <1>1, ConfigAssumption DEF StoreInv, Temp
<1>3. writer[w].pc \in Holding /\ writer[w].pc \in Committing
  BY <1>2 DEF Holding, Committing
<1>4. lock[p] = w
  BY <1>2, <1>3 DEF StoreInv, Locked
<1>5. CASE writer[w].kind = "init"
  <2>1. writer[w].pc # "again"
    BY <1>3, <1>5 DEF StoreInv, Shape
  <2> QED
    BY <1>2, <1>4, <1>5, <2>1
<1>6. CASE writer[w].kind = "edit"
  <2>1. writer[w].old \in synced[p]
    BY <1>2, <1>6 DEF StoreInv, Holds
  <2>2. synced[p] \subseteq backup[p]
    BY DEF StoreInv, Durable
  <2> QED
    BY <2>1, <2>2 DEF Remains
<1>7. writer[w].kind \in {"init", "edit"}
  BY DEF StoreInv, ConfigTypeOK, CallStates
<1> QED
  BY <1>5, <1>6, <1>7

\* Careful steps keep what a hook has passed by, until it is missing.
LEMMA SureKept ==
  ASSUME StoreInv, StoreInv', NEW p \in Paths, Careful(p), Sure(p), Candidate(p)' # "missing"
  PROVE  Sure(p)'
<1>1. CASE Remains(p)
  BY <1>1 DEF Remains, Careful, Sure
<1>2. CASE file[p] # None /\ ~Creating(p)
  <2>1. ~Creating(p)'
    BY <1>2 DEF Creating, Careful
  <2>2. CASE file'[p] # None
    BY <2>1, <2>2 DEF Sure
  <2>3. CASE file'[p] = None
    <3>1. Remains(p)' \/ Pending(p)'
      BY <2>3 DEF Candidate, Evidence, Remains, Pending
    <3>2. StoreInv' /\ Pending(p)' => Remains(p)' \/ (\E w \in Writers : lock[p] = w /\ writer[w].kind = "init" /\ writer[w].pc = "publish")'
      BY PendingRemains, PTL
    <3>3. (\E w \in Writers : lock[p] = w /\ writer[w].kind = "init" /\ writer[w].pc = "publish")' => Creating(p)'
      BY DEF Creating
    <3> QED
      BY <2>1, <3>1, <3>2, <3>3 DEF Sure
  <2> QED
    BY <2>2, <2>3
<1> QED
  BY <1>1, <1>2 DEF Sure

LEMMA DoubtKept ==
  ASSUME StoreInv, StoreInv', NEW p \in Paths, Careful(p), Sure(p) \/ Pending(p),
         Candidate(p)' # "missing"
  PROVE  Sure(p)' \/ Pending(p)'
<1>1. CASE Sure(p)
  BY <1>1, SureKept
<1>2. CASE ~Sure(p) /\ Pending(p)
  <2>1. PICK w \in Writers : lock[p] = w /\ writer[w].kind = "init" /\ writer[w].pc = "publish"
    BY <1>2, PendingRemains DEF Sure
  <2>2. SUFFICES ASSUME file'[p] # None, ~Pending(p)' PROVE ~Creating(p)'
    BY DEF Candidate, Evidence, Sure, Remains, Pending
  <2>3. ASSUME NEW v \in Writers, lock'[p] = v, writer'[v].kind = "init", writer'[v].pc \in {"temp", "publish"}
        PROVE  FALSE
    <3>1. lock[p] = v /\ v = w
      BY <2>1, <2>3 DEF Careful
    <3>2. writer'[v].pc = "publish"
      BY <2>1, <2>3, <3>1 DEF Careful
    <3>3. writer'[v].sel.path = p
      BY <2>3 DEF StoreInv, Locked
    <3>4. temp'[v] = p
      BY <3>2, <3>3 DEF StoreInv, Temp
    <3> QED
      BY <2>2, <3>4 DEF Pending
  <2> QED
    BY <2>3 DEF Creating
<1> QED
  BY <1>1, <1>2

LEMMA ReturnCareful ==
  ASSUME StoreInv, NEW w \in Writers, Return(w), litter \subseteq litter',
         UNCHANGED backup, NEW p \in Paths
  PROVE  Careful(p)
<1>1. writer' = [writer EXCEPT ![w] = Idle] /\ writer \in [Writers -> CallStates]
  BY DEF Return, StoreInv, ConfigTypeOK
<1>2. writer'[w].pc = "idle" /\ \A v \in Writers : v # w => writer'[v] = writer[v]
  BY <1>1 DEF Idle
<1>3. \A v \in Writers : v # w /\ lock'[p] = v => lock[p] = v
  BY ConfigAssumption DEF Return, Unlock
<1> QED
  BY <1>2, <1>3 DEF Careful

\* A step of w that keeps the remains and does not go on to create.
LEMMA OtherCareful ==
  ASSUME StoreInv, NEW w \in Writers, NEW p \in Paths,
         litter \subseteq litter', backup[p] \subseteq backup'[p],
         \A v \in Writers \ {w} : /\ writer'[v].pc = writer[v].pc /\ writer'[v].kind = writer[v].kind
                                  /\ lock'[p] = v => lock[p] = v,
         \/ writer'[w].pc \notin {"temp", "publish"}
         \/ writer'[w].kind # "init"
         \/ /\ lock'[p] = w => lock[p] = w
            /\ writer[w].kind = "init"
            /\ \/ writer[w].pc = "temp"
               \/ writer[w].pc = "check" /\ writer'[w].pc = "temp" /\ (lock[p] = w => file[p] = None)
  PROVE  Careful(p)
BY DEF Careful

LEMMA BeginCareful ==
  ASSUME StoreInv, NEW w \in Writers, Begin(w), NEW p \in Paths
  PROVE  Careful(p)
<1>1. ConfigTypeOK /\ \A pc \in {"look", "first", "snap", "confirm", "guard", "second", "target",
                                 "third", "read", "check"} : pc \notin {"temp", "publish"}
  BY DEF StoreInv
<1>2. CASE Return(w)
  BY <1>2, ReturnCareful DEF Begin, Call, Look, Snap, Confirm, First, Guard, Second, Lock, Third, Read, disks
<1>3. CASE ~Return(w)
  <2>1. litter \subseteq litter' /\ backup[p] \subseteq backup'[p]
    BY <1>3 DEF Begin, Call, Look, Snap, Confirm, First, Guard, Second, Lock, Third, Read, disks
  <2>2. \E x : writer' = [writer EXCEPT ![w] = x]
    BY <1>3, ZenonT(30) DEF Begin, Call, Look, Snap, Confirm, First, Guard, Second, Lock, Third, Read, Goto
  <2>3. \A v \in Writers \ {w} : writer'[v] = writer[v] /\ (lock'[p] = v => lock[p] = v)
    <3>1. \A v \in Writers \ {w} : writer'[v] = writer[v]
      BY <1>1, <2>2 DEF ConfigTypeOK
    <3>2. \A v \in Writers \ {w} : lock'[p] = v => lock[p] = v
      BY <1>1, <1>3, ZenonT(30) DEF Begin, Call, Look, Snap, Confirm, First, Guard, Second, Lock, Third, Read,
         locks, ConfigTypeOK
    <3> QED
      BY <3>1, <3>2
  <2>4. writer'[w].pc \notin {"temp", "publish"}
    <3>1. writer \in [Writers -> CallStates] /\ writer[w] \in CallStates
      BY <1>1 DEF ConfigTypeOK
    <3>2. CASE Call(w)
      BY <3>1, <3>2, ZenonT(30) DEF Call, Idle
    <3>3. CASE Look(w) \/ Snap(w) \/ Confirm(w) \/ First(w) \/ Guard(w)
      BY <1>3, <3>1, <3>3 DEF Look, Snap, Confirm, First, Guard, Goto, CallStates
    <3>4. CASE Second(w) \/ Lock(w) \/ Third(w) \/ Read(w)
      BY <1>3, <3>1, <3>4 DEF Second, Lock, Third, Read, Goto, CallStates
    <3> QED
      BY <3>2, <3>3, <3>4 DEF Begin
  <2> QED
    BY <2>1, <2>3, <2>4, OtherCareful
<1> QED
  BY <1>2, <1>3

LEMMA CommitCareful ==
  ASSUME StoreInv, NEW w \in Writers, Commit(w), NEW p \in Paths
  PROVE  Careful(p)
<1>1. ConfigTypeOK /\ Shape(w) /\ Locked(w) /\ writer \in [Writers -> CallStates] /\ writer[w] \in CallStates
  BY DEF StoreInv, ConfigTypeOK
<1>2. CASE Fail(w) \/ Settle(w)
  BY <1>2, ReturnCareful DEF Fail, Settle
<1>3. CASE Publish(w) /\ ~Fail(w)
  <2> DEFINE q == writer[w].sel.path
             R == Raced(Unaware(w, q), q)
  <2>1. /\ writer' = [R EXCEPT ![w].pc = "settle", ![w].raced = {}]
        /\ UNCHANGED <<litter, backup, synced, locks>>
    BY <1>3 DEF Publish
  <2>2. /\ R \in [Writers -> CallStates] /\ R[w] \in CallStates
        /\ \A v \in Writers : R[v].pc = writer[v].pc /\ R[v].kind = writer[v].kind
    <3>1. Unaware(w, q) \in SUBSET Writers /\ q \in Paths
      BY <1>1, <1>3 DEF Unaware, Publish, Shape, Holding, Committing, Selections
    <3> QED
      BY <1>1, <3>1, RacedType, ZenonT(30)
  <2> HIDE DEF R
  <2>3. writer'[w].pc = "settle" /\ \A v \in Writers \ {w} : writer'[v] = R[v]
    BY <2>1, <2>2 DEF CallStates
  <2> QED
    BY <2>1, <2>2, <2>3, OtherCareful DEF locks
<1>4. CASE ~Fail(w) /\ ~Settle(w) /\ ~Publish(w)
  <2>1. UNCHANGED <<litter, locks>> /\ backup[p] \subseteq backup'[p]
    <3>1. CASE Save(w)
      BY <1>1, <1>4, <3>1 DEF Save, ConfigTypeOK
    <3>2. CASE ~Save(w)
      BY <1>4, <3>2 DEF Commit, Check, SyncBackup, WriteTemp, Again, Expire, disks
    <3> QED
      BY <3>1, <3>2
  <2>2. \/ \E pc \in {"sync", "again", "backup"} : Goto(w, pc) \/ Proceed(w, pc)
        \/ writer[w].pc = "sync" /\ Goto(w, "temp")
        \/ writer[w].pc = "temp" /\ Goto(w, "publish")
        \/ writer[w].pc = "again" /\ Proceed(w, "publish")
        \/ writer[w].pc = "check" /\ AsCompared(w) /\ ~Replacing(w) /\ Proceed(w, "temp")
    BY <1>4 DEF Commit, Check, Save, SyncBackup, WriteTemp, Again, Expire
  <2>3. \A v \in Writers \ {w} : writer'[v] = writer[v]
    BY <1>1, <2>2 DEF Goto, Proceed
  <2>4. \A pc : Goto(w, pc) \/ Proceed(w, pc) => writer'[w].pc = pc /\ writer'[w].kind = writer[w].kind
    BY <1>1 DEF Goto, Proceed, CallStates
  <2>5. CASE \E pc \in {"sync", "again", "backup"} : Goto(w, pc) \/ Proceed(w, pc)
    BY <2>1, <2>3, <2>4, <2>5, OtherCareful DEF locks
  <2>6. CASE writer[w].pc \in {"sync", "again"}
    <3>1. writer[w].kind # "init"
      BY <1>1, <2>6 DEF Shape, Committing
    <3>2. writer'[w].kind = writer[w].kind
      BY <2>2, <2>4
    <3> QED
      BY <2>1, <2>3, <3>1, <3>2, OtherCareful DEF locks
  <2>7. CASE writer[w].pc = "temp" /\ Goto(w, "publish")
    BY <1>1, <2>1, <2>3, <2>4, <2>7, OtherCareful DEF locks, CallStates
  <2>8. CASE writer[w].pc = "check" /\ AsCompared(w) /\ ~Replacing(w) /\ Proceed(w, "temp")
    <3>1. writer'[w].pc = "temp" /\ writer'[w].kind = writer[w].kind
      BY <2>4, <2>8
    <3>2. lock[p] = w => file[p] = None
      <4>1. lock[p] = w => writer[w].sel.path = p
        BY <1>1 DEF Locked
      <4>2. Selected(w) = writer[w].sel /\ writer[w].sel.is # "exists"
        BY <2>8 DEF AsCompared, Replacing
      <4> QED
        BY <2>8, <4>1, <4>2, SelectedType, ResolveType DEF Selected
    <3>3. writer[w].kind = "init" \/ writer'[w].kind # "init"
      BY <3>1
    <3> QED
      BY <2>1, <2>3, <2>8, <3>1, <3>2, <3>3, OtherCareful DEF locks
  <2> QED
    BY <2>2, <2>5, <2>6, <2>7, <2>8
<1> QED
  BY <1>2, <1>3, <1>4

LEMMA WorldCareful ==
  ASSUME StoreInv, NEW p \in Paths,
         \/ \E w \in Writers : Die(w)
         \/ \E q \in Paths : Edit(q)
         \/ UNCHANGED <<disks, locks, writer>>
  PROVE  Careful(p)
<1>1. ASSUME NEW w \in Writers, Die(w) PROVE Careful(p)
  BY <1>1, ReturnCareful DEF Die
<1>2. ASSUME NEW q \in Paths, Edit(q) PROVE Careful(p)
  <2>1. writer' = Raced(Writers, q) /\ UNCHANGED <<litter, backup, lock>>
    BY <1>2 DEF Edit, locks
  <2>2. \A v \in Writers : writer'[v].pc = writer[v].pc /\ writer'[v].kind = writer[v].kind
    <3>1. ConfigTypeOK /\ Writers \in SUBSET Writers
      BY DEF StoreInv
    <3> QED
      BY <1>2, <2>1, <3>1, RacedType, ZenonT(30)
  <2> QED
    BY <2>1, <2>2 DEF Careful
<1>3. CASE UNCHANGED <<disks, locks, writer>>
  BY <1>3 DEF Careful, disks, locks
<1> QED
  BY <1>1, <1>2, <1>3

\* What a hook has watched shrinks as long as its read goes on.
LEMMA WatchType ==
  ASSUME ConfigTypeOK, Watch
  PROVE  /\ occupied' \in [Readers -> SUBSET Paths]
         /\ \A r \in Readers : reader[r].pc \in Reading /\ reader'[r].pc \in Reading =>
              \A p \in Paths : p \in occupied'[r] <=> p \in occupied[r] /\ Candidate(p)' # "missing"
<1>1. \A r \in Readers : occupied[r] \subseteq Paths
  BY DEF ConfigTypeOK
<1> QED
  BY <1>1 DEF Watch

\* A step of others, while a hook reads.
LEMMA KnowsKept ==
  ASSUME StoreInv, StoreInv', Watch, NEW r \in Readers, reader[r].pc \in Reading, Knows(r),
         reader'[r] = reader[r], \A p \in Paths : Careful(p)
  PROVE  Knows(r)'
<1>1. /\ reader[r].at \in Paths /\ Legacy \in Paths /\ Neutral \in Paths
      /\ \A p \in Paths : p \in occupied'[r] => p \in occupied[r] /\ Candidate(p)' # "missing"
  BY WatchType DEF Knows, StoreInv, Paths
<1>2. \A p \in Paths : Passed(r, p) => Passed(r, p)'
  BY <1>1, SureKept DEF Passed
<1>3. \A p \in Paths : Doubted(r, p) => Doubted(r, p)'
  BY <1>1, DoubtKept DEF Doubted
<1>4. \A p \in Paths : Remains(p) => Remains(p)'
  BY DEF Careful, Remains
<1>5. reader[r].first # None /\ reader[r].first.is = "missing" =>
        /\ reader[r].pc = "list" /\ reader[r].at \in occupied'[r] => Remains(reader[r].at)'
        /\ reader[r].at = Neutral => Legacy \notin occupied'[r]
  BY <1>1, <1>4 DEF Knows
<1>6. reader[r].first = None =>
        /\ reader[r].env = Automatic /\ reader[r].at = Neutral => Passed(r, Legacy)'
        /\ reader[r].pc = "list" => Doubted(r, reader[r].at)'
  BY <1>1, <1>2, <1>3 DEF Knows
<1>7. reader[r].first # None /\ reader[r].first.is = "missing" =>
       /\ reader[r].first.path = Neutral /\ reader[r].env = Automatic
       /\ Passed(r, Legacy)' /\ Passed(r, Neutral)'
  BY <1>1, <1>2 DEF Knows
<1> QED
  BY <1>1, <1>5, <1>6, <1>7 DEF Knows, Doubted

LEMMA HookFrame ==
  ASSUME UNCHANGED <<disks, locks, writer>>, NEW p \in Paths
  PROVE  /\ Sure(p)' <=> Sure(p)
         /\ Pending(p)' <=> Pending(p)
         /\ Remains(p)' <=> Remains(p)
         /\ Candidate(p)' = Candidate(p)
<1> USE DEF disks, locks
<1>1. (Pending(p)' <=> Pending(p)) /\ (Remains(p)' <=> Remains(p))
  BY DEF Pending, Remains
<1>2. Creating(p)' <=> Creating(p)
  BY DEF Creating
<1>3. Candidate(p)' = Candidate(p)
  BY DEF Candidate, Evidence
<1> QED
  BY <1>1, <1>2, <1>3 DEF Sure

\* A resolution that starts over, in the same attempt or in the next.
LEMMA ResumeKnows ==
  ASSUME StoreInv, NEW r \in Readers, reader[r].pc \in Reading, Knows(r), Watch,
         UNCHANGED <<disks, locks, writer>>, NEW try \in 0..3, NEW first \in Selections \cup {None},
         Resume(r, try, first),
         first # None /\ first.is = "missing" =>
           /\ first.path = Neutral /\ reader[r].env = Automatic
           /\ Passed(r, Legacy) /\ Passed(r, Neutral)
  PROVE  /\ reader' \in [Readers -> ReadStates]
         /\ \A q \in Readers \ {r} : reader'[q] = reader[q]
         /\ Knows(r)' /\ reader'[r].pc = "probe"
<1> DEFINE at == IF reader[r].at = Neutral /\ reader[r].env = Automatic THEN Legacy ELSE reader[r].at
           y == [reader[r] EXCEPT !.pc = "probe", !.try = try, !.first = first, !.at = at]
<1>1. reader \in [Readers -> ReadStates] /\ reader[r] \in ReadStates /\ ConfigTypeOK
  BY DEF StoreInv, ConfigTypeOK
<1>2. /\ at \in Paths /\ Legacy \in Paths /\ Neutral \in Paths
      /\ reader[r].env = Automatic => at = Legacy
  BY DEF Knows, Paths
<1>3. reader' = [reader EXCEPT ![r] = y]
  BY <1>1 DEF Resume, ReadStates
<1> HIDE DEF at
<1>4. y \in ReadStates
  BY <1>1, <1>2 DEF ReadStates, Reading
<1>5. reader' \in [Readers -> ReadStates] /\ reader'[r] = y /\ \A q \in Readers \ {r} : reader'[q] = reader[q]
  <2> HIDE DEF y
  <2> QED
    BY <1>1, <1>3, <1>4
<1>6. /\ reader'[r].pc = "probe" /\ reader'[r].first = first /\ reader'[r].at = at
      /\ reader'[r].env = reader[r].env
  BY <1>1, <1>5 DEF ReadStates
<1>7. \A p \in Paths : Passed(r, p) => Passed(r, p)'
  <2>1. \A p \in Paths : p \in occupied'[r] => p \in occupied[r]
    BY <1>1, <1>6, WatchType DEF Reading
  <2> QED
    BY <2>1, HookFrame DEF Passed
<1>8. Legacy # Neutral
  BY ConfigAssumption
<1> QED
  BY <1>2, <1>5, <1>6, <1>7, <1>8 DEF Knows

LEMMA QuietType == Quiet \in ReadStates /\ Quiet.pc = "idle" /\ Quiet.first = None
<1>1. 0 \in 0..3
  OBVIOUS
<1> QED
  BY <1>1 DEF Quiet, ReadStates

\* The other ends of an attempt.
LEMMA EndKnows ==
  ASSUME StoreInv, NEW r \in Readers, Finish(r) \/ Defaults(r)
  PROVE  /\ reader' \in [Readers -> ReadStates]
         /\ \A q \in Readers \ {r} : reader'[q] = reader[q]
         /\ reader'[r].pc \notin Reading
         /\ Finish(r) => reader'[r].pc = "idle"
<1>1. reader \in [Readers -> ReadStates]
  BY DEF StoreInv, ConfigTypeOK
<1>2. /\ Quiet \in ReadStates /\ [Quiet EXCEPT !.pc = "defaults"] \in ReadStates
      /\ Quiet.pc = "idle" /\ [Quiet EXCEPT !.pc = "defaults"].pc = "defaults"
  BY QuietType DEF ReadStates
<1>3. \E y \in ReadStates : /\ reader' = [reader EXCEPT ![r] = y]
                            /\ y.pc \in {"idle", "defaults"}
                            /\ Finish(r) => y.pc = "idle"
  <2>1. CASE Finish(r)
    BY <1>2, <2>1 DEF Finish
  <2>2. CASE ~Finish(r)
    BY <1>2, <2>2 DEF Defaults
  <2> QED
    BY <2>1, <2>2
<1> QED
  BY <1>1, <1>3 DEF Reading

LEMMA RetryKnows ==
  ASSUME StoreInv, NEW r \in Readers, reader[r].pc \in Reading, Knows(r), Watch,
         UNCHANGED <<disks, locks, writer>>, Retry(r)
  PROVE  /\ reader' \in [Readers -> ReadStates]
         /\ \A q \in Readers \ {r} : reader'[q] = reader[q]
         /\ reader'[r].pc \in Reading => Knows(r)'
         /\ reader'[r].pc # "defaults"
<1>1. CASE Finish(r)
  BY <1>1, EndKnows
<1>2. CASE reader[r].try # 3 /\ Resume(r, reader[r].try + 1, None)
  <2>1. reader[r].try \in 0..3
    BY DEF StoreInv, ConfigTypeOK, ReadStates
  <2>2. reader[r].try + 1 \in 0..3
    BY <1>2, <2>1
  <2>3. None \in Selections \cup {None}
    OBVIOUS
  <2> QED
    BY <1>2, <2>2, <2>3, ResumeKnows
<1> QED
  BY <1>1, <1>2 DEF Retry

LEMMA StartKnows ==
  ASSUME StoreInv, NEW r \in Readers, StartRead(r)
  PROVE  /\ reader' \in [Readers -> ReadStates]
         /\ \A q \in Readers \ {r} : reader'[q] = reader[q]
         /\ Knows(r)'
         /\ reader[r].pc \notin Reading
<1>1. reader \in [Readers -> ReadStates] /\ reader[r].pc \notin Reading
  BY DEF StoreInv, ConfigTypeOK, StartRead
<1>2. PICK env \in Views :
        reader' = [reader EXCEPT ![r] =
          [Quiet EXCEPT !.pc = "probe", !.env = env, !.try = 1,
                        !.at = IF env = Automatic THEN Legacy ELSE env]]
  BY DEF StartRead
<1> DEFINE at == IF env = Automatic THEN Legacy ELSE env
           y == [Quiet EXCEPT !.pc = "probe", !.env = env, !.try = 1, !.at = at]
<1>3. env \in Paths \cup {Automatic} /\ at \in Paths /\ Legacy # Neutral /\ Automatic \notin Paths
  BY ConfigAssumption DEF Paths
<1>4. reader' = [reader EXCEPT ![r] = y]
  BY <1>2
<1> HIDE DEF at
<1>5. y \in ReadStates /\ y.pc = "probe" /\ y.env = env /\ y.at = at /\ y.first = None
  <2>1. 1 \in 0..3
    OBVIOUS
  <2> QED
    BY <1>3, <2>1, QuietType DEF ReadStates, Reading
<1> HIDE DEF y
<1>6. reader' \in [Readers -> ReadStates] /\ reader'[r] = y /\ \A q \in Readers \ {r} : reader'[q] = reader[q]
  BY <1>1, <1>4, <1>5
<1>7. Knows(r)'
  BY <1>3, <1>5, <1>6 DEF Knows, at
<1> QED
  BY <1>1, <1>6, <1>7

LEMMA ProbeKnows ==
  ASSUME StoreInv, NEW r \in Readers, Knows(r), Watch, Probe(r)
  PROVE  /\ reader' \in [Readers -> ReadStates]
         /\ \A q \in Readers \ {r} : reader'[q] = reader[q]
         /\ reader'[r].pc \in Reading => Knows(r)'
         /\ reader'[r].pc # "defaults"
<1> PICK at, first : at = reader[r].at /\ first = reader[r].first
  OBVIOUS
<1>1. /\ reader \in [Readers -> ReadStates] /\ reader[r] \in ReadStates /\ ConfigTypeOK
      /\ reader[r].pc = "probe" /\ reader[r].pc \in Reading /\ at \in Paths
      /\ UNCHANGED <<disks, locks, writer>>
  BY DEF StoreInv, ConfigTypeOK, Probe, Reading, Knows
<1>2. \A p \in Paths : Passed(r, p) => (reader'[r].pc \in Reading => Passed(r, p)')
  BY <1>1, WatchType, HookFrame DEF Passed
<1>3. CASE file[at] = None /\ Step(r, "list")
  <2>1. [reader[r] EXCEPT !.pc = "list"] \in ReadStates
    BY <1>1 DEF ReadStates, Reading
  <2>2. /\ reader' \in [Readers -> ReadStates] /\ reader'[r] = [reader[r] EXCEPT !.pc = "list"]
        /\ \A q \in Readers \ {r} : reader'[q] = reader[q]
    BY <1>1, <1>3, <2>1 DEF Step
  <2>3. /\ reader'[r].pc = "list" /\ reader'[r].at = at /\ reader'[r].first = first
        /\ reader'[r].env = reader[r].env
    BY <1>1, <2>2 DEF ReadStates
  <2>4. /\ \A p \in Paths : Passed(r, p) => Passed(r, p)'
        /\ \A p \in Paths : p \in occupied'[r] => p \in occupied[r] /\ Candidate(p) # "missing"
    BY <1>1, <1>2, <2>3, WatchType, HookFrame DEF Reading
  <2>5. at \in occupied'[r] => Remains(at)' \/ Pending(at)'
    BY <1>1, <1>3, <2>4, HookFrame DEF Candidate, Evidence, Remains, Pending
  <2>6. Doubted(r, at)'
    BY <2>3, <2>5 DEF Doubted, Sure
  <2>7. Passed(r, at) => (at \in occupied'[r] => Remains(at)')
    BY <1>1, <1>3, <2>4, HookFrame DEF Passed, Sure
  <2>8. Legacy \in Paths /\ Neutral \in Paths
    BY DEF Paths
  <2>9. first = None =>
          /\ reader[r].env = Automatic /\ at = Neutral => Passed(r, Legacy)'
          /\ Doubted(r, at)'
    BY <2>4, <2>6, <2>8 DEF Knows
  <2>10. first # None /\ first.is = "missing" =>
           /\ first.path = Neutral /\ reader[r].env = Automatic
           /\ Passed(r, Legacy)' /\ Passed(r, Neutral)'
           /\ at \in occupied'[r] => Remains(at)'
           /\ at = Neutral => Legacy \notin occupied'[r]
    BY <2>4, <2>7, <2>8 DEF Knows
  <2>11. Knows(r)'
    BY <1>1, <2>3, <2>9, <2>10 DEF Knows, Doubted
  <2> QED
    BY <2>2, <2>3, <2>11
<1>4. CASE file[at] # None /\ Resolved(r, "exists")
  <2>1. CASE first = None
    <3> DEFINE s == [path |-> at, is |-> "exists"]
    <3>1. /\ s \in Selections /\ s # None
          /\ reader' = [reader EXCEPT ![r].pc = "read", ![r].first = s, ![r].before = TRUE]
      BY <1>1, <1>4, <2>1, ConfigAssumption DEF Resolved, Selections
    <3> HIDE DEF s
    <3>2. [reader[r] EXCEPT !.pc = "read", !.first = s, !.before = TRUE] \in ReadStates
      BY <1>1, <3>1 DEF ReadStates, Reading
    <3>3. /\ reader' \in [Readers -> ReadStates]
          /\ reader'[r] = [reader[r] EXCEPT !.pc = "read", !.first = s, !.before = TRUE]
          /\ \A q \in Readers \ {r} : reader'[q] = reader[q]
      BY <1>1, <3>1, <3>2
    <3>4. /\ reader'[r].pc = "read" /\ reader'[r].at = at /\ reader'[r].first = s
          /\ reader'[r].env = reader[r].env
      BY <1>1, <3>3 DEF ReadStates
    <3>5. s.is = "exists"
      BY DEF s
    <3>6. Knows(r)'
      BY <1>1, <3>1, <3>4, <3>5 DEF Knows
    <3> QED
      BY <3>3, <3>4, <3>6
  <2>2. CASE first # None /\ (Finish(r) \/ Retry(r))
    BY <1>1, <2>2, EndKnows, RetryKnows
  <2> QED
    BY <1>4, <2>1, <2>2 DEF Resolved
<1> QED
  BY <1>3, <1>4 DEF Probe

LEMMA ListKnows ==
  ASSUME StoreInv, NEW r \in Readers, Knows(r), Watch, List(r)
  PROVE  /\ reader' \in [Readers -> ReadStates]
         /\ \A q \in Readers \ {r} : reader'[q] = reader[q]
         /\ reader'[r].pc \in Reading => Knows(r)'
         /\ reader'[r].pc = "defaults" => {Legacy, Neutral} \cap occupied[r] = {}
<1> PICK at, first : at = reader[r].at /\ first = reader[r].first
  OBVIOUS
<1>1. /\ reader \in [Readers -> ReadStates] /\ reader[r] \in ReadStates /\ ConfigTypeOK
      /\ reader[r].pc = "list" /\ reader[r].pc \in Reading /\ at \in Paths
      /\ UNCHANGED <<disks, locks, writer>>
      /\ Legacy \in Paths /\ Neutral \in Paths /\ Legacy # Neutral
  BY ConfigAssumption DEF StoreInv, ConfigTypeOK, List, Reading, Knows, Paths
<1>2. ~Evidence(at) => ~Remains(at) /\ ~Pending(at)
  BY DEF Evidence, Remains, Pending
<1>3. ~Evidence(at) /\ first = None => Passed(r, at)
  BY <1>1, <1>2 DEF Knows, Doubted, Passed
<1>4. ~Evidence(at) /\ first # None /\ first.is = "missing" => at \notin occupied[r]
  BY <1>1, <1>2 DEF Knows
<1>5. CASE Finish(r)
  BY <1>5, EndKnows, <1>1 DEF Reading
<1>6. CASE Retry(r)
  BY <1>1, <1>6, RetryKnows
<1>7. CASE /\ ~Evidence(at) /\ at = Legacy /\ reader[r].env = Automatic
           /\ reader' = [reader EXCEPT ![r].pc = "probe", ![r].at = Neutral]
  <2>1. [reader[r] EXCEPT !.pc = "probe", !.at = Neutral] \in ReadStates
    BY <1>1 DEF ReadStates, Reading
  <2>2. /\ reader' \in [Readers -> ReadStates]
        /\ reader'[r] = [reader[r] EXCEPT !.pc = "probe", !.at = Neutral]
        /\ \A q \in Readers \ {r} : reader'[q] = reader[q]
    BY <1>1, <1>7, <2>1
  <2>3. /\ reader'[r].pc = "probe" /\ reader'[r].at = Neutral /\ reader'[r].first = first
        /\ reader'[r].env = reader[r].env
    BY <1>1, <2>2 DEF ReadStates
  <2>4. /\ \A p \in Paths : p \in occupied'[r] => p \in occupied[r]
        /\ \A p \in Paths : Passed(r, p) => Passed(r, p)'
    <3>1. \A p \in Paths : p \in occupied'[r] => p \in occupied[r]
      BY <1>1, <2>3, WatchType DEF Reading
    <3> QED
      BY <1>1, <3>1, HookFrame DEF Passed
  <2>5. first = None => Passed(r, Legacy)'
    BY <1>1, <1>3, <1>7, <2>4
  <2>6. first # None /\ first.is = "missing" =>
           /\ first.path = Neutral /\ reader[r].env = Automatic
           /\ Passed(r, Legacy)' /\ Passed(r, Neutral)'
           /\ Legacy \notin occupied'[r]
    BY <1>1, <1>4, <1>7, <2>4 DEF Knows
  <2>7. Knows(r)'
    BY <1>1, <2>3, <2>5, <2>6 DEF Knows
  <2> QED
    BY <2>2, <2>3, <2>7
<1>8. CASE /\ ~Evidence(at) /\ ~(at = Legacy /\ reader[r].env = Automatic)
           /\ first = None /\ reader[r].env = Automatic
           /\ Resume(r, reader[r].try, [path |-> at, is |-> "missing"])
  <2>1. at = Neutral
    BY <1>1, <1>8 DEF Knows
  <2>2. Passed(r, Legacy) /\ Passed(r, Neutral)
    BY <1>1, <1>3, <1>8, <2>1 DEF Knows
  <2>3. [path |-> at, is |-> "missing"] \in Selections /\ reader[r].try \in 0..3
    BY <1>1 DEF Selections, ReadStates
  <2> QED
    BY <1>1, <1>8, <2>1, <2>2, <2>3, ResumeKnows
<1>9. CASE /\ ~Evidence(at) /\ ~(at = Legacy /\ reader[r].env = Automatic)
           /\ first = [path |-> at, is |-> "missing"] /\ first # None /\ Defaults(r)
  <2>1. first.is = "missing" /\ first.path = at
    BY <1>9
  <2>2. at = Neutral /\ Legacy \notin occupied[r] /\ at \notin occupied[r]
    BY <1>1, <1>4, <1>9, <2>1 DEF Knows
  <2> QED
    BY <1>9, <2>2, EndKnows
<1>10. \/ Finish(r)
       \/ Retry(r)
       \/ /\ ~Evidence(at) /\ at = Legacy /\ reader[r].env = Automatic
          /\ reader' = [reader EXCEPT ![r].pc = "probe", ![r].at = Neutral]
       \/ /\ ~Evidence(at) /\ ~(at = Legacy /\ reader[r].env = Automatic)
          /\ Resolved(r, "missing")
  BY DEF List, Resolved
<1>11. Resolved(r, "missing") =>
         \/ Finish(r)
         \/ Retry(r)
         \/ /\ first = None /\ reader[r].env = Automatic
            /\ Resume(r, reader[r].try, [path |-> at, is |-> "missing"])
         \/ first = [path |-> at, is |-> "missing"] /\ first # None /\ Defaults(r)
  BY DEF Resolved
<1> QED
  BY <1>5, <1>6, <1>7, <1>8, <1>9, <1>10, <1>11

LEMMA LoadKnows ==
  ASSUME StoreInv, NEW r \in Readers, Knows(r), Watch, Load(r)
  PROVE  /\ reader' \in [Readers -> ReadStates]
         /\ \A q \in Readers \ {r} : reader'[q] = reader[q]
         /\ reader'[r].pc \in Reading => Knows(r)'
         /\ reader'[r].pc # "defaults"
<1>1. /\ reader[r].pc = "read" /\ reader[r].pc \in Reading /\ reader[r] \in ReadStates
      /\ UNCHANGED <<disks, locks, writer>>
  BY DEF StoreInv, ConfigTypeOK, Load, Reading
<1>2. CASE Finish(r)
  BY <1>2, EndKnows
<1>3. CASE Retry(r)
  BY <1>1, <1>3, RetryKnows
<1>4. CASE Resume(r, reader[r].try, reader[r].first)
  <2>1. /\ reader[r].try \in 0..3 /\ reader[r].first \in Selections \cup {None}
        /\ reader[r].first.is = "exists"
    BY <1>1 DEF ReadStates, Knows
  <2>2. reader[r].first.is # "missing"
    BY <2>1
  <2> QED
    BY <1>1, <1>4, <2>1, <2>2, ResumeKnows
<1> QED
  BY <1>2, <1>3, <1>4 DEF Load

\* A step of a hook, for itself.
LEMMA HookKnows ==
  ASSUME StoreInv, ReadInv, NEW r \in Readers, Hook(r), Watch
  PROVE  /\ reader' \in [Readers -> ReadStates]
         /\ \A q \in Readers \ {r} : reader'[q] = reader[q]
         /\ reader'[r].pc \in Reading => Knows(r)'
         /\ reader[r].pc \in Reading /\ reader'[r].pc = "defaults" =>
              {Legacy, Neutral} \cap occupied[r] = {}
<1>1. CASE StartRead(r)
  BY <1>1, StartKnows
<1>2. ~StartRead(r) => Knows(r)
  BY DEF ReadInv, Hook, Probe, List, Load, Reading
<1>3. CASE Probe(r)
  <2>1. Knows(r)
    BY <1>3 DEF ReadInv, Probe, Reading
  <2> QED
    BY <1>3, <2>1, ProbeKnows
<1>4. CASE List(r)
  <2>1. Knows(r)
    BY <1>4 DEF ReadInv, List, Reading
  <2> QED
    BY <1>4, <2>1, ListKnows
<1>5. CASE Load(r)
  <2>1. Knows(r)
    BY <1>5 DEF ReadInv, Load, Reading
  <2> QED
    BY <1>5, <2>1, LoadKnows
<1> QED
  BY <1>1, <1>3, <1>4, <1>5 DEF Hook

-----------------------------------------------------------------------------
LEMMA StepInv ==
  ASSUME StoreInv, ReadInv, [ConfigNext]_vars
  PROVE  StoreInv' /\ ReadInv'
<1>1. ASSUME NEW r \in Readers, Hook(r), Watch PROVE StoreInv' /\ ReadInv'
  <2>1. /\ reader' \in [Readers -> ReadStates]
        /\ \A q \in Readers \ {r} : reader'[q] = reader[q]
        /\ reader'[r].pc \in Reading => Knows(r)'
    BY <1>1, HookKnows
  <2>2. UNCHANGED <<disks, locks, writer, bounds, history>> /\ occupied' \in [Readers -> SUBSET Paths]
    BY <1>1, WatchType DEF Hook, StartRead, Probe, List, Load, StoreInv
  <2>3. StoreInv'
    BY <2>1, <2>2, ReadersInv
  <2>4. \A p \in Paths : Careful(p)
    BY <2>2, WorldCareful
  <2>5. ASSUME NEW q \in Readers, q # r, reader'[q].pc \in Reading PROVE Knows(q)'
    BY <1>1, <2>1, <2>3, <2>4, <2>5, KnowsKept DEF ReadInv
  <2> QED
    BY <2>1, <2>3, <2>5 DEF ReadInv
<1>2. ASSUME Watch, \/ \E w \in Writers : Begin(w) \/ Commit(w) \/ Die(w)
                    \/ \E p \in Paths : Edit(p)
      PROVE StoreInv' /\ ReadInv'
  <2>1. StoreInv'
    BY <1>2, WritersInv, WatchType DEF StoreInv
  <2>2. \A p \in Paths : Careful(p)
    BY <1>2, BeginCareful, CommitCareful, WorldCareful
  <2>3. \A r \in Readers : reader'[r] = reader[r]
    BY <1>2, ZenonT(30) DEF Begin, Call, Look, Snap, Confirm, First, Guard, Second, Lock, Third, Read, Commit,
       Check, Save, SyncBackup, WriteTemp, Again, Publish, Settle, Expire, Fail, Die, Edit
  <2> QED
    BY <1>2, <2>1, <2>2, <2>3, KnowsKept DEF ReadInv
<1>3. CASE PowerLoss /\ Watch
  <2>1. StoreInv'
    BY <1>3, WritersInv, WatchType DEF StoreInv
  <2>2. \A r \in Readers : reader'[r].pc \notin Reading
    BY <1>3, QuietType DEF PowerLoss, Reading
  <2> QED
    BY <2>1, <2>2 DEF ReadInv
<1>4. CASE UNCHANGED vars
  <2>1. UNCHANGED <<disks, locks, writer, bounds, history>> /\ UNCHANGED <<reader, occupied>>
    BY <1>4 DEF vars
  <2>2. StoreInv'
    BY <2>1, ReadersInv DEF StoreInv, ConfigTypeOK
  <2>3. ReadInv'
    <3>1. \A p \in Paths : /\ Remains(p)' <=> Remains(p)
                           /\ Sure(p)' <=> Sure(p)
                           /\ Pending(p)' <=> Pending(p)
      BY <2>1, HookFrame
    <3>2. Legacy \in Paths /\ Neutral \in Paths
      BY DEF Paths
    <3>3. ASSUME NEW r \in Readers, Knows(r) PROVE Knows(r)'
      BY <2>1, <3>1, <3>2, <3>3 DEF Knows, Passed, Doubted
    <3> QED
      BY <2>1, <3>3 DEF ReadInv
  <2> QED
    BY <2>2, <2>3
<1> QED
  BY <1>1, <1>2, <1>3, <1>4 DEF ConfigNext

LEMMA InitReadInv == ConfigInit => ReadInv
BY QuietType DEF ConfigInit, ReadInv, Reading

LEMMA StoreSafe == ConfigSpec => [](StoreInv /\ ReadInv)
<1>1. ConfigInit => StoreInv /\ ReadInv
  BY InitInv, InitReadInv
<1>2. StoreInv /\ ReadInv /\ [ConfigNext]_vars => StoreInv' /\ ReadInv'
  BY StepInv
<1> QED
  BY <1>1, <1>2, PTL DEF ConfigSpec

\* Only its own publication takes a call on to its last step.
LEMMA PublishStep ==
  ASSUME StoreInv, ConfigNext, NEW w \in Writers, writer[w].pc = "publish", writer'[w].pc = "settle"
  PROVE  MayPublish(w)
<1>1. writer \in [Writers -> CallStates] /\ writer[w] \in CallStates /\ ConfigTypeOK
  BY DEF StoreInv, ConfigTypeOK
<1>2. \A v \in Writers : Return(v) => writer'[w].pc \in {"idle", writer[w].pc}
  BY <1>1 DEF Return, Idle
<1>3. \A v \in Writers : Fail(v) \/ Settle(v) \/ Die(v) \/ Expire(v) => Return(v)
  BY DEF Fail, Settle, Die, Expire
<1>4. ~Publish(w) => \A v \in Writers : ~Publish(v) \/ Fail(v) \/ writer'[w].pc = writer[w].pc
  <2>1. SUFFICES ASSUME NEW v \in Writers, v # w, Publish(v), ~Fail(v)
                 PROVE  writer'[w].pc = writer[w].pc
    OBVIOUS
  <2> DEFINE q == writer[v].sel.path
             R == Raced(Unaware(v, q), q)
  <2>2. writer' = [R EXCEPT ![v].pc = "settle", ![v].raced = {}] /\ writer[v].pc = "publish"
    BY <2>1 DEF Publish
  <2>3. R \in [Writers -> CallStates] /\ R[w].pc = writer[w].pc
    <3>1. Unaware(v, q) \in SUBSET Writers /\ q \in Paths
      BY <2>2 DEF Unaware, StoreInv, Shape, Holding, Committing, Selections
    <3> QED
      BY <1>1, <3>1, RacedType
  <2> HIDE DEF R
  <2> QED
    BY <2>1, <2>2, <2>3
<1>5. \A v \in Writers : \A x, pc :
        \/ Goto(v, pc)
        \/ Proceed(v, pc)
        \/ writer' = [writer EXCEPT ![v] = x]
        => v = w \/ writer'[w].pc = writer[w].pc
  BY <1>1 DEF Goto, Proceed
<1>6. ASSUME NEW v \in Writers, Begin(v) PROVE FALSE
  <2>1. CASE Return(v)
    BY <1>2, <2>1
  <2>2. CASE v = w
    BY <1>6, <2>2 DEF Begin, Call, Look, Snap, Confirm, First, Guard, Second, Lock, Third, Read
  <2>3. CASE v # w /\ ~Return(v)
    <3>1. \E x : writer' = [writer EXCEPT ![v] = x]
      BY <1>6, <2>3, ZenonT(30) DEF Begin, Call, Look, Snap, Confirm, First, Guard, Second, Lock, Third, Read, Goto
    <3> QED
      BY <1>5, <2>3, <3>1
  <2> QED
    BY <2>1, <2>2, <2>3
<1>7. ASSUME NEW v \in Writers, Commit(v), ~Publish(w) PROVE FALSE
  <2>1. CASE Fail(v) \/ Settle(v) \/ Expire(v) \/ Publish(v)
    BY <1>2, <1>3, <1>4, <1>7, <2>1
  <2>2. CASE ~(Fail(v) \/ Settle(v) \/ Expire(v) \/ Publish(v))
    <3>1. writer[v].pc # "publish" /\ \E pc : Goto(v, pc) \/ Proceed(v, pc)
      BY <1>7, <2>2 DEF Commit, Check, Save, SyncBackup, WriteTemp, Again
    <3> QED
      BY <1>5, <3>1
  <2> QED
    BY <2>1, <2>2
<1>8. ASSUME NEW v \in Writers, Die(v) PROVE FALSE
  BY <1>2, <1>3, <1>8
<1>9. ASSUME NEW p \in Paths, Edit(p) PROVE FALSE
  <2>1. writer' = Raced(Writers, p) /\ Writers \in SUBSET Writers
    BY <1>9 DEF Edit
  <2>2. writer'[w].pc = writer[w].pc
    BY <1>1, <2>1, RacedType
  <2> QED
    BY <2>2
<1>10. ~PowerLoss /\ ~(\E r \in Readers : Hook(r))
  <2>1. PowerLoss => writer'[w].pc = "idle"
    BY DEF PowerLoss, Idle
  <2>2. (\E r \in Readers : Hook(r)) => writer' = writer
    BY DEF Hook, StartRead, Probe, List, Load
  <2> QED
    BY <2>1, <2>2
<1>11. Publish(w)
  BY <1>6, <1>7, <1>8, <1>9, <1>10 DEF ConfigNext
<1>12. ~Fail(w)
  BY <1>1 DEF Fail, Return, Idle
<1> QED
  BY <1>11, <1>12 DEF Publish

\* Only a hook that reads falls back to defaults, by a step of its own.
LEMMA DefaultsStep ==
  ASSUME StoreInv, ReadInv, [ConfigNext]_vars, NEW r \in Readers,
         reader[r].pc \in Reading, reader'[r].pc = "defaults"
  PROVE  {Legacy, Neutral} \cap occupied[r] = {}
<1>1. "defaults" \notin Reading
  BY DEF Reading
<1>2. CASE \E q \in Readers : Hook(q) /\ Watch
  BY <1>1, <1>2, HookKnows
<1>3. CASE PowerLoss
  BY <1>3, QuietType DEF PowerLoss
<1>4. CASE UNCHANGED reader
  BY <1>1, <1>4
<1> QED
  BY <1>2, <1>3, <1>4, ZenonT(30) DEF ConfigNext, Begin, Call, Look, Snap, Confirm, First, Guard, Second, Lock,
     Third, Read, Commit, Check, Save, SyncBackup, WriteTemp, Again, Publish, Settle, Expire, Fail,
     Die, Edit, vars

-----------------------------------------------------------------------------
\* Every variable of the store and of its callers keeps its type.
THEOREM ConfigTypeCorrect == ConfigSpec => []ConfigTypeOK
BY StoreSafe, PTL DEF StoreInv

\* A document that was compared and replaced is in a synced backup (commitDocument).
THEOREM OldIsKept == ConfigSpec => []OldKept
<1>1. StoreInv => OldKept
  BY DEF StoreInv, Durable, OldKept
<1> QED
  BY <1>1, StoreSafe, PTL

\* A commit reported as done is there until somebody writes again (the sync of the
\* directory before the result).
THEOREM DoneIsDone == ConfigSpec => []DoneStays
<1>1. StoreInv => DoneStays
  BY DEF StoreInv, Durable, DoneStays
<1> QED
  BY <1>1, StoreSafe, PTL

\* Evidence of an interrupted write is one: a temporary file belongs to the call that
\* holds the lock, or to a writer that has died.
THEOREM EvidenceIsTrue == ConfigSpec => []NoFalseAlarm
<1>1. StoreInv => NoFalseAlarm
  BY DEF StoreInv, Locked, Temp, Holding, Committing, NoFalseAlarm
<1> QED
  BY <1>1, StoreSafe, PTL

\* The compare-and-swap of an edit, and the creation that overwrites nothing.
THEOREM SwapCorrect == ConfigSpec => Swap
<1>1. StoreInv /\ ReadInv /\ [ConfigNext]_vars =>
        [\A w \in Writers, p \in Paths : Publishes(w, p) =>
           /\ writer[w].kind = "init" => file[p] = None
           /\ writer[w].kind = "edit" =>
                /\ writer[w].expect = [path |-> p, doc |-> writer[w].old]
                /\ file[p] = writer[w].old \/ p \in writer[w].raced]_vars
  <2>1. SUFFICES ASSUME StoreInv, ConfigNext, NEW w \in Writers, NEW p \in Paths, Publishes(w, p)
                 PROVE  /\ writer[w].kind = "init" => file[p] = None
                        /\ writer[w].kind = "edit" =>
                             /\ writer[w].expect = [path |-> p, doc |-> writer[w].old]
                             /\ file[p] = writer[w].old \/ p \in writer[w].raced
    BY DEF ConfigNext
  <2>2. /\ writer[w].pc = "publish" /\ p = writer[w].sel.path /\ MayPublish(w)
        /\ Shape(w) /\ Holds(w)
    BY <2>1, PublishStep DEF Publishes, StoreInv
  <2> QED
    BY <2>2 DEF Shape, Holds, MayPublish, Replacing, Committing
<1> QED
  BY <1>1, StoreSafe, PTL DEF ConfigSpec, Swap

\* Nothing is created beside remains, nor at N while L is there.
THEOREM CreationIsFresh == ConfigSpec => CreatesFresh
<1>1. StoreInv /\ ReadInv /\ [ConfigNext]_vars =>
        [\A w \in Writers, p \in Paths : Publishes(w, p) /\ writer[w].kind = "init" =>
           /\ p \notin litter /\ backup[p] = {}
           /\ writer[w].call.path = Automatic =>
                p = Neutral /\ (file[Legacy] = None \/ Legacy \in writer[w].raced)]_vars
  <2>1. SUFFICES ASSUME StoreInv, NEW w \in Writers, NEW p \in Paths, Publishes(w, p),
                        writer[w].kind = "init"
                 PROVE  /\ p \notin litter /\ backup[p] = {}
                        /\ writer[w].call.path = Automatic =>
                             p = Neutral /\ (file[Legacy] = None \/ Legacy \in writer[w].raced)
    OBVIOUS
  <2> QED
    BY <2>1 DEF StoreInv, Holds, Publishes
<1> QED
  BY <1>1, StoreSafe, PTL DEF ConfigSpec, CreatesFresh

\* Defaults mean that both candidates were missing at some moment of the read
\* (ReadDocumentSelection).
THEOREM DefaultsAreTrue == ConfigSpec => DefaultsMeanMissing
<1>1. StoreInv /\ ReadInv /\ [ConfigNext]_vars =>
        [\A r \in Readers : reader[r].pc \in Reading /\ reader'[r].pc = "defaults" =>
           {Legacy, Neutral} \cap occupied[r] = {}]_vars
  BY DefaultsStep
<1> QED
  BY <1>1, StoreSafe, PTL DEF ConfigSpec, DefaultsMeanMissing
=============================================================================
