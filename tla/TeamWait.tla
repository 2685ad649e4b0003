------------------------------- MODULE TeamWait -------------------------------
(***************************************************************************)
(* teamMode "wait-all": the lead's Stop hooks and the members' TeammateIdle *)
(* hooks are separate processes that meet in one state file, each access   *)
(* of which holds the team's file lock and replaces the file by a rename.  *)
(* A hook records what it reports in one locked section and tries to claim *)
(* the completion in a second one:                                         *)
(*                                                                         *)
(*   ready -> record -> claim -> admit -> send -> ready     (lead's Stop)  *)
(*   ready -> record -> filter -> claim -> send -> ready    (TeammateIdle) *)
(*                                                                         *)
(* with "suppressed" after a filter or another refusal.  A hook that ends  *)
(* leaves its process ready for another event.  Stamps are whole seconds;  *)
(* idle_members keeps names only, since nothing reads its stamps.  The     *)
(* team's configuration does not change.                                   *)
(***************************************************************************)
EXTENDS Integers, FiniteSets

CONSTANTS
  Members,    \* the non-lead members of the team
  Lead,       \* the lead session
  Hooks,      \* hook processes that may run at the same time
  MaxTime     \* bound: seconds modelled

ASSUME TeamAssumption == Lead \notin Members /\ MaxTime \in Nat \ {0}

VARIABLES
  now,
  team,       \* the state file
  pc, who,    \* of each hook process: where it is, whose event it handles
  claimed,    \* of each hook process: it owns the completion
  reported,   \* history: who has reported since the last claim
  excused     \* history: a report was recorded and then given up, and no hook
              \* has tried to claim since

vars == <<now, team, pc, who, claimed, reported, excused>>

Agents == Members \cup {Lead}

\* The state file.
States == [leadStopped : BOOLEAN, leadStopAt : 0 .. MaxTime,
           idle : SUBSET Members, notifiedAt : 0 .. MaxTime]

TeamInit ==
  /\ now = 1
  /\ team = [leadStopped |-> FALSE, leadStopAt |-> 0, idle |-> {}, notifiedAt |-> 0]
  /\ pc = [h \in Hooks |-> "ready"]
  /\ who = [h \in Hooks |-> Lead]
  /\ claimed = [h \in Hooks |-> FALSE]
  /\ reported = {}
  /\ excused = FALSE

Goto(h, from, to) == pc[h] = from /\ pc' = [pc EXCEPT ![h] = to]

\* The hook is over: its process may serve another event.
End(h, from) ==
  /\ Goto(h, from, "ready")
  /\ claimed' = [claimed EXCEPT ![h] = FALSE]

-----------------------------------------------------------------------------
\* A Stop or TeammateIdle event: the agent has gone idle, for the first time or
\* again after work no hook is told of, or the host repeats an event.  The early duplicate check of TeammateIdle looks for a lock file that
\* no hook ever creates, so it lets every event pass.
Begin(h, a) ==
  /\ Goto(h, "ready", "record")
  /\ who' = [who EXCEPT ![h] = a]
  /\ UNCHANGED <<now, team, claimed, reported, excused>>

Recorded(a) ==
  IF a = Lead THEN [team EXCEPT !.leadStopped = TRUE, !.leadStopAt = now]
  ELSE [team EXCEPT !.idle = @ \cup {a}]

RecordFails(h) ==
  /\ End(h, "record")
  /\ UNCHANGED <<now, team, who, reported, excused>>

Record(h) ==
  /\ Goto(h, "record", IF who[h] = Lead THEN "claim" ELSE "filter")
  /\ team' = Recorded(who[h])
  /\ reported' = reported \cup {who[h]}
  /\ UNCHANGED <<now, who, claimed, excused>>

\* The filter of a TeammateIdle is asked before the claim.
Filter(h) ==
  /\ \/ Goto(h, "filter", "claim") /\ UNCHANGED excused
     \/ Goto(h, "filter", "suppressed") /\ excused' = TRUE
  /\ UNCHANGED <<now, team, who, claimed, reported>>

-----------------------------------------------------------------------------
\* Mutant of AllIdle: the fence takes no notice of when the lead stopped.
AllIdleOnce == team.leadStopped /\ Members \subseteq team.idle /\ team.notifiedAt = 0

AllIdle ==
  /\ team.leadStopped
  /\ Members \subseteq team.idle
  /\ ~(team.notifiedAt > 0 /\ team.notifiedAt >= team.leadStopAt)

\* Mutant of MarkedNotified: the members' reports outlive the claim.
MarkedKeepingIdle == [team EXCEPT !.notifiedAt = now, !.leadStopped = FALSE]

MarkedNotified == [team EXCEPT !.notifiedAt = now, !.leadStopped = FALSE, !.idle = {}]

\* ClaimAllIdle: readiness and claim under one lock.
Claim(h) ==
  \/ /\ AllIdle
     /\ team' = MarkedNotified
     /\ Goto(h, "claim", IF who[h] = Lead THEN "admit" ELSE "send")
     /\ claimed' = [claimed EXCEPT ![h] = TRUE]
     /\ reported' = {} /\ excused' = FALSE
     /\ UNCHANGED <<now, who>>
  \/ /\ ~AllIdle
     /\ End(h, "claim")
     /\ excused' = FALSE
     /\ UNCHANGED <<now, team, who, reported>>

\* The lock cannot be taken, or the claim cannot be written: nothing is claimed.
ClaimFails(h) ==
  /\ End(h, "claim")
  /\ excused' = TRUE
  /\ UNCHANGED <<now, team, who, reported>>

\* A Stop that owns the completion still meets the status, the filters, the event
\* lock and the content check of HandleHook.
Admission(h) ==
  /\ Goto(h, "admit", "send") \/ Goto(h, "admit", "suppressed")
  /\ UNCHANGED <<now, team, who, claimed, reported, excused>>

\* The notification goes out, or fails, and the hook is over.
Send(h) ==
  /\ End(h, "send")
  /\ UNCHANGED <<now, team, who, reported, excused>>

Leave(h) ==
  /\ End(h, "suppressed")
  /\ UNCHANGED <<now, team, who, reported, excused>>

\* The host kills a hook that outlives its time limit.
Kill(h) ==
  /\ pc[h] # "ready" /\ End(h, pc[h])
  /\ excused' = (excused \/ pc[h] \in {"filter", "claim"})
  /\ UNCHANGED <<now, team, who, reported>>

Tick ==
  /\ now < MaxTime /\ now' = now + 1
  /\ UNCHANGED <<team, pc, who, claimed, reported, excused>>

HookStep(h) ==
  \/ (\E a \in Agents : Begin(h, a)) \/ RecordFails(h) \/ Record(h) \/ Filter(h)
  \/ Claim(h) \/ ClaimFails(h) \/ Admission(h) \/ Send(h) \/ Leave(h) \/ Kill(h)

TeamNext == (\E h \in Hooks : HookStep(h)) \/ Tick

TeamSpec == TeamInit /\ [][TeamNext]_vars

-----------------------------------------------------------------------------
(* Properties.                                                              *)

\* Every variable keeps its shape, and only a hook past its claim owns one.
TeamTypeOK ==
  /\ now \in 1 .. MaxTime
  /\ team \in States
  /\ pc \in [Hooks -> {"ready", "record", "filter", "claim", "admit", "send", "suppressed"}]
  /\ who \in [Hooks -> Agents]
  /\ claimed \in [Hooks -> BOOLEAN]
  /\ reported \subseteq Agents /\ excused \in BOOLEAN

Claims(h) == pc[h] = "claim" /\ pc'[h] \in {"admit", "send"}

\* A completion is claimed only when the lead and every member have each reported
\* since the claim before it: no report ever serves two notifications, however the
\* hooks' two locked sections interleave ("a single consolidated notification").
ClaimCoversAll ==
  [][\A h \in Hooks : Claims(h) => reported = Agents]_vars

Quiet == \A h \in Hooks : pc[h] = "ready"

\* No completion is lost between the two sections: once the hooks are quiet, a file
\* that shows everybody idle has no unclaimed completion, unless a report was given
\* up (filter, error, kill) and nobody has tried since, or the lead stopped in
\* the very second of the last claim.
NoLostCompletion ==
  Quiet /\ ~excused /\ team.leadStopAt > team.notifiedAt =>
    ~(team.leadStopped /\ team.idle = Members)
=============================================================================
