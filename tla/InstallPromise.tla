---------------------------- MODULE InstallPromise ----------------------------
(***************************************************************************)
(* What the installation transaction promises to everything that runs from *)
(* the installation: it is one recorded generation, or it is down on its   *)
(* way to one.  A decision to change it survives every interruption.  It   *)
(* is carried out, or reversed, once, into a newer generation that has the *)
(* consumers of the old one and delivers nothing until it is enabled       *)
(* again.  It is never dropped.                                            *)
(***************************************************************************)
EXTENDS Naturals

CONSTANTS Generations,  \* what an installation can be
          Nowhere       \* no decision is pending

VARIABLES
  installed,  \* the installation as it was last complete
  goal,       \* the installation it is on its way to, or Nowhere
  undoing     \* the pending decision is a reversal

promiseVars == <<installed, goal, undoing>>

PromiseInit ==
  /\ installed \in Generations
  /\ goal = Nowhere
  /\ undoing = FALSE

Undertake ==
  /\ goal = Nowhere
  /\ goal' \in Generations
  /\ goal'.gen = installed.gen + 1
  /\ undoing' = FALSE
  /\ UNCHANGED installed

GoBack ==
  /\ goal # Nowhere
  /\ ~undoing
  /\ goal' \in Generations
  /\ goal'.gen > goal.gen
  /\ goal'.consumers = installed.consumers
  /\ ~goal'.on
  /\ undoing' = TRUE
  /\ UNCHANGED installed

Arrive ==
  /\ goal # Nowhere
  /\ installed' = goal
  /\ goal' = Nowhere
  /\ undoing' = FALSE

PromiseNext == Undertake \/ GoBack \/ Arrive

PromiseSpec == PromiseInit /\ [][PromiseNext]_promiseVars
=============================================================================
