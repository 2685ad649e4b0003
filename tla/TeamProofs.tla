------------------------------ MODULE TeamProofs ------------------------------
(***************************************************************************)
(* Proofs about TeamWait, for every set of members, every number of hook   *)
(* processes and every length of time.                                     *)
(*                                                                         *)
(* TeamInv strengthens the type invariant by two facts: whoever the file   *)
(* shows as idle or stopped has reported since the last claim, and an      *)
(* unclaimed completion that no report was given up for still has a hook   *)
(* between its two locked sections.                                        *)
(***************************************************************************)
EXTENDS TeamWait, TLAPS

\* The file shows nobody idle or stopped who has not reported since the last claim.
Founded ==
  /\ team.idle \subseteq reported
  /\ team.leadStopped => Lead \in reported

Claimable ==
  /\ ~excused
  /\ team.leadStopAt > team.notifiedAt
  /\ team.leadStopped
  /\ team.idle = Members

\* Somebody who has recorded a report is still going to try a claim.
Attended == Claimable => \E h \in Hooks : pc[h] \in {"filter", "claim"}

TeamInv == TeamTypeOK /\ Founded /\ Attended

-----------------------------------------------------------------------------
\* The initial state satisfies the invariant: nobody has reported.
LEMMA TeamInitInv == TeamInit => TeamInv
<1> SUFFICES ASSUME TeamInit PROVE TeamInv
  OBVIOUS
<1> USE TeamAssumption DEF TeamAssumption
<1>1. TeamTypeOK
  <2>1. now \in 1 .. MaxTime /\ 0 \in 0 .. MaxTime
    BY DEF TeamInit
  <2>2. team \in States
    BY <2>1 DEF TeamInit, States
  <2>3. reported \subseteq Agents /\ excused \in BOOLEAN
    BY DEF TeamInit
  <2>4. /\ who \in [Hooks -> Agents]
        /\ claimed \in [Hooks -> BOOLEAN]
    BY DEF TeamInit, Agents
  <2> QED
    BY <2>1, <2>2, <2>3, <2>4 DEF TeamInit, TeamTypeOK, States
<1>2. Founded
  BY DEF TeamInit, Founded
<1>3. Attended
  BY DEF TeamInit, Attended, Claimable
<1> QED
  BY <1>1, <1>2, <1>3 DEF TeamInv

\* Recording a report keeps the shape of the state file.
LEMMA RecordedType ==
  ASSUME TeamTypeOK, NEW a \in Agents
  PROVE  Recorded(a) \in States
<1>1. now \in 0 .. MaxTime /\ team \in States
  BY TeamAssumption DEF TeamAssumption, TeamTypeOK
<1>2. CASE a = Lead
  <2>1. [team EXCEPT !.leadStopped = TRUE, !.leadStopAt = now] \in States
    BY <1>1 DEF States
  <2> QED
    BY <1>2, <2>1 DEF Recorded
<1>3. CASE a # Lead
  <2>1. a \in Members
    BY <1>3 DEF Agents
  <2>2. team.idle \cup {a} \in SUBSET Members
    BY <1>1, <2>1 DEF States
  <2>3. [team EXCEPT !.idle = team.idle \cup {a}] \in States
    BY <1>1, <2>2 DEF States
  <2> QED
    BY <1>3, <2>3 DEF Recorded
<1> QED
  BY <1>2, <1>3

\* So does the claim.
LEMMA MarkedType ==
  ASSUME TeamTypeOK
  PROVE  MarkedNotified \in States
<1>1. now \in 0 .. MaxTime /\ team \in States
  BY TeamAssumption DEF TeamAssumption, TeamTypeOK
<1>2. {} \in SUBSET Members
  OBVIOUS
<1> QED
  BY <1>1, <1>2 DEF States, MarkedNotified

\* Every step of a hook or the clock keeps the types.
LEMMA TeamTypeStep == TeamTypeOK /\ [TeamNext]_vars => TeamTypeOK'
<1> SUFFICES ASSUME TeamTypeOK, [TeamNext]_vars PROVE TeamTypeOK'
  OBVIOUS
<1> USE TeamAssumption DEF TeamAssumption, TeamTypeOK, States
<1>1. CASE UNCHANGED vars
  BY <1>1 DEF vars
<1>2. CASE Tick
  BY <1>2 DEF Tick
<1>3. ASSUME NEW h \in Hooks, HookStep(h) PROVE TeamTypeOK'
  <2>1. ASSUME NEW a \in Agents, Begin(h, a) PROVE TeamTypeOK'
    BY <2>1 DEF Begin, Goto
  <2>2. CASE RecordFails(h)
    BY <2>2 DEF RecordFails, End, Goto
  <2>3. CASE Record(h)
    <3>1. who[h] \in Agents
      OBVIOUS
    <3>2. team' \in States
      BY <2>3, <3>1, RecordedType DEF Record
    <3> QED
      BY <2>3, <3>1, <3>2 DEF Record, Goto
  <2>4. CASE Filter(h)
    BY <2>4 DEF Filter, Goto
  <2>5. CASE Claim(h)
    <3>1. team' \in States
      BY <2>5, MarkedType DEF Claim
    <3> QED
      BY <2>5, <3>1 DEF Claim, End, Goto
  <2>6. CASE ClaimFails(h)
    BY <2>6 DEF ClaimFails, End, Goto
  <2>7. CASE Admission(h)
    BY <2>7 DEF Admission, Goto
  <2>8. CASE Send(h)
    BY <2>8 DEF Send, End, Goto
  <2>9. CASE Leave(h)
    BY <2>9 DEF Leave, End, Goto
  <2>10. CASE Kill(h)
    BY <2>10 DEF Kill, End, Goto
  <2> QED
    BY <1>3, <2>1, <2>2, <2>3, <2>4, <2>5, <2>6, <2>7, <2>8, <2>9, <2>10 DEF HookStep
<1> QED
  BY <1>1, <1>2, <1>3 DEF TeamNext

-----------------------------------------------------------------------------
\* Whoever is marked idle or stopped has reported: a report adds both, a claim
\* removes both.
LEMMA FoundedStep == TeamTypeOK /\ Founded /\ [TeamNext]_vars => Founded'
<1> SUFFICES ASSUME TeamTypeOK, Founded, [TeamNext]_vars PROVE Founded'
  OBVIOUS
<1> USE DEF Founded
<1>1. ASSUME UNCHANGED <<team, reported>> PROVE Founded'
  BY <1>1
<1>2. ASSUME NEW h \in Hooks, Record(h) PROVE Founded'
  <2>1. who[h] \in Agents
    BY DEF TeamTypeOK, States
  <2>2. team' = Recorded(who[h]) /\ reported' = reported \cup {who[h]}
    BY <1>2 DEF Record
  <2>3. CASE who[h] = Lead
    BY <2>2, <2>3 DEF Recorded, TeamTypeOK, States
  <2>4. CASE who[h] # Lead
    BY <2>2, <2>4 DEF Recorded, TeamTypeOK, States
  <2> QED
    BY <2>3, <2>4
<1>3. ASSUME NEW h \in Hooks, Claim(h) PROVE Founded'
  <2>1. CASE team' = MarkedNotified /\ reported' = {}
    BY <2>1 DEF MarkedNotified, TeamTypeOK, States
  <2> QED
    BY <1>1, <1>3, <2>1 DEF Claim
<1> QED
  BY <1>1, <1>2, <1>3 DEF TeamNext, HookStep, Tick, Begin, RecordFails, Filter,
     ClaimFails, Admission, Send, Leave, Kill, vars

\* A claim finds AllIdle, so by Founded the lead and every member have reported.
LEMMA ClaimStep ==
  ASSUME TeamInv, [TeamNext]_vars, NEW h \in Hooks, Claims(h)
  PROVE  reported = Agents
<1>1. pc[h] = "claim" /\ pc'[h] \in {"admit", "send"}
  BY DEF Claims
<1>2. AllIdle
  <2>1. pc' # pc
    BY <1>1
  <2>2. PICK p \in Hooks : HookStep(p)
    BY <2>1 DEF TeamNext, Tick, vars
  <2>3. p = h
    BY <1>1, <2>2 DEF HookStep, Begin, RecordFails, Record, Filter, Claim, ClaimFails,
       Admission, Send, Leave, Kill, End, Goto, TeamInv, TeamTypeOK, States
  <2>4. Claim(h)
    BY <1>1, <2>2, <2>3 DEF HookStep, Begin, RecordFails, Record, Filter, ClaimFails,
       Admission, Send, Leave, Kill, End, Goto, TeamInv, TeamTypeOK, States
  <2>5. ~ End(h, "claim")
    BY <1>1 DEF End, Goto, TeamInv, TeamTypeOK, States
  <2> QED
    BY <2>4, <2>5 DEF Claim
<1> QED
  BY <1>2 DEF AllIdle, TeamInv, TeamTypeOK, States, Founded, Agents

-----------------------------------------------------------------------------
\* A hook that leaves the two sections early gives its report up, and one that
\* finds the completion not ready leaves a file that is not claimable.
LEMMA AttendedStep == TeamTypeOK /\ Attended /\ [TeamNext]_vars => Attended'
<1> SUFFICES ASSUME TeamTypeOK, Attended, [TeamNext]_vars, Claimable'
             PROVE  \E h \in Hooks : pc'[h] \in {"filter", "claim"}
  BY DEF Attended
<1> USE DEF TeamTypeOK, States
<1>1. CASE UNCHANGED <<team, excused, pc>>
  BY <1>1 DEF Attended, Claimable
<1>2. ASSUME NEW h \in Hooks, Record(h) PROVE pc'[h] \in {"filter", "claim"}
  BY <1>2 DEF Record, Goto
<1>3. ASSUME NEW h \in Hooks, HookStep(h), ~ Record(h)
      PROVE  \E p \in Hooks : pc'[p] \in {"filter", "claim"}
  <2>1. CASE Claim(h)
    <3>1. ~ AllIdle
      BY <2>1 DEF Claim, Claimable, MarkedNotified
    <3>2. UNCHANGED team
      BY <2>1, <3>1 DEF Claim
    <3> QED
      BY <3>1, <3>2 DEF AllIdle, Claimable
  <2>2. CASE ~ Claim(h)
    <3>1. UNCHANGED team
      BY <1>3, <2>2 DEF HookStep, Begin, RecordFails, Filter, ClaimFails, Admission,
         Send, Leave, Kill
    <3>2. ~ excused'
      BY DEF Claimable
    <3>3. ~ ClaimFails(h)
      BY <3>2 DEF ClaimFails
    <3>4. ~ excused
      BY <1>3, <2>2, <3>2, <3>3 DEF HookStep, Begin, RecordFails, Filter, Admission,
         Send, Leave, Kill
    <3>5. PICK p \in Hooks : pc[p] \in {"filter", "claim"}
      BY <3>1, <3>4 DEF Attended, Claimable
    <3>6. CASE p # h
      BY <1>3, <2>2, <3>3, <3>5, <3>6 DEF HookStep, Begin, RecordFails, Filter,
         Admission, Send, Leave, Kill, End, Goto
    <3>7. CASE p = h
      BY <1>3, <2>2, <3>2, <3>3, <3>5, <3>7 DEF HookStep, Begin, RecordFails, Filter,
         Admission, Send, Leave, Kill, End, Goto
    <3> QED
      BY <3>6, <3>7
  <2> QED
    BY <2>1, <2>2
<1> QED
  BY <1>1, <1>2, <1>3 DEF TeamNext, Tick, vars

-----------------------------------------------------------------------------
\* The strengthened invariant holds throughout.
LEMMA TeamInvariant == TeamSpec => []TeamInv
<1>1. TeamInit => TeamInv
  BY TeamInitInv
<1>2. TeamInv /\ [TeamNext]_vars => TeamInv'
  BY TeamTypeStep, FoundedStep, AttendedStep DEF TeamInv
<1> QED
  BY <1>1, <1>2, PTL DEF TeamSpec

\* The state file and the processes keep their shape.
THEOREM TeamTypeCorrect == TeamSpec => []TeamTypeOK
<1>1. TeamInv => TeamTypeOK
  BY DEF TeamInv
<1> QED
  BY <1>1, TeamInvariant, PTL

\* A completion is claimed only once the lead and every member have reported since
\* the previous claim, so each completion is announced at most once.
THEOREM TeamClaimsCovered == TeamSpec => ClaimCoversAll
<1>1. TeamInv /\ [TeamNext]_vars => [\A h \in Hooks : Claims(h) => reported = Agents]_vars
  BY ClaimStep
<1> QED
  BY <1>1, TeamInvariant, PTL DEF TeamSpec, ClaimCoversAll

\* Once the hooks are quiet no completion is left unclaimed between the two locked
\* sections, however they interleaved.
THEOREM TeamCompletionKept == TeamSpec => []NoLostCompletion
<1>1. TeamInv => NoLostCompletion
  BY DEF TeamInv, TeamTypeOK, States, Attended, Claimable, NoLostCompletion, Quiet
<1> QED
  BY <1>1, TeamInvariant, PTL
=============================================================================
