-------------------------- MODULE IdempotentDelivery --------------------------
(***************************************************************************)
(* What the notification service promises its callers, without locks,      *)
(* files, clocks or processes: a key is acknowledged at most once per Gap   *)
(* of real time, an acknowledged attempt may be handed to the desktop once, *)
(* and one that is abandoned (deadline, crash) is never handed over at all. *)
(***************************************************************************)
EXTENDS Integers

CONSTANTS Attempt, Key, Time, Gap

VARIABLES
  ledger,    \* acknowledged attempts, with their key and the time of admission
  pending,   \* acknowledged, not handed over and not abandoned
  sent       \* handed over

promiseVars == <<ledger, pending, sent>>

Entry == [attempt : Attempt, key : Key, at : Time]

PromiseInit == ledger = {} /\ pending = {} /\ sent = {}

\* A new attempt, no sooner than Gap after any other attempt for its key.
Acknowledge(e) ==
  /\ \A f \in ledger : f.attempt # e.attempt
  /\ \A f \in ledger : f.key = e.key => e.at - f.at >= Gap
  /\ ledger' = ledger \cup {e}
  /\ pending' \in {pending, pending \cup {e.attempt}}
  /\ UNCHANGED sent

HandOver(a) ==
  /\ a \in pending /\ a \notin sent
  /\ pending' = pending \ {a}
  /\ sent' = sent \cup {a}
  /\ UNCHANGED ledger

Abandon == /\ pending' \in SUBSET pending
           /\ UNCHANGED <<ledger, sent>>

PromiseNext ==
  \/ \E e \in Entry : Acknowledge(e)
  \/ \E a \in pending : HandOver(a)
  \/ Abandon

PromiseSpec == PromiseInit /\ [][PromiseNext]_promiseVars
=============================================================================
