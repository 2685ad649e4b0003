------------------------------ MODULE MCTeamWait ------------------------------
(* Small instances of TeamWait: interchangeable hook processes and members.   *)
EXTENDS TeamWait, TLC

CONSTANTS lead, m1, m2, h1, h2, h3

MCMembers == {m1, m2}
MCTwo     == {h1, h2}
MCHooks   == {h1, h2, h3}

TeamSymmetry == Permutations(MCMembers) \cup Permutations(MCHooks)
PairSymmetry == Permutations(MCMembers) \cup Permutations(MCTwo)
=============================================================================
