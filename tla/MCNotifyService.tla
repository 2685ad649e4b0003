--------------------------- MODULE MCNotifyService ---------------------------
(* Small instances of NotifyService: three calls of one process, or one call of *)
(* each of two.                                                               *)
EXTENDS NotifyService, TLC

CONSTANTS k1, k2, s1, d1, d2, c1, c2, c3, p1, p2, submitted, unknown

MCOneKey    == {k1}
MCTwoKeys   == {k1, k2}
MCSessionOf == [k \in Keys |-> s1]
MCTwoCalls  == {c1, c2}
MCThreeCalls == {c1, c2, c3}
MCStatuses  == {submitted, unknown}
MCProcOf    == [c \in Clients |-> IF c = c2 THEN p2 ELSE p1]
MCSingle    == [c \in Clients |-> p1]
MCPolicy    == {[runtime |-> 2, session |-> 2, burst |-> 2]}

\* The two processes change places with their calls; keys and statuses are alike.
Swapped == (c1 :> c2) @@ (c2 :> c1) @@ (p1 :> p2) @@ (p2 :> p1)
PairSymmetry == Permutations({k1, k2}) \cup Permutations(MCStatuses) \cup {Swapped}
=============================================================================
