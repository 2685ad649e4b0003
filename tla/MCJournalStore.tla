--------------------------- MODULE MCJournalStore ---------------------------
(* Small instances of JournalStore: up to three keys over two sessions.  The  *)
(* windows and the retention are a second or two, each second has two ticks.  *)
EXTENDS JournalStore, TLC

CONSTANTS k1, k2, k3, s1, s2

MCKeys         == {k1, k2, k3}
MCSessions     == {s1, s2}
MCSessionOf    == [k \in MCKeys |-> IF k = k3 THEN s2 ELSE s1]
MCTwoKeys      == {k1, k2}
MCOneSession   == {s1}
MCOneSessionOf == [k \in MCTwoKeys |-> s1]

MCLoosePolicy == {[runtime |-> 2, session |-> 2, burst |-> 2]}
MCPolicies    == {[runtime |-> 2, session |-> 1, burst |-> 2],
                  [runtime |-> 2, session |-> 2, burst |-> 1]}
KeySymmetry == Permutations({k1, k2})
=============================================================================
