---------------------------- MODULE MCHookSession ----------------------------
(* Small instances of HookSession: interchangeable processes, chosen events.  *)
EXTENDS HookSession, TLC

CONSTANTS h1, h2, h3

MCTwo == {h1, h2}
MCThree == {h1, h2, h3}

TwoSymmetry == Permutations(MCTwo)
ThreeSymmetry == Permutations(MCThree)

Event(kind, status, turn, body, flushed) ==
  [kind |-> kind, status |-> status, turn |-> turn, body |-> body, flushed |-> flushed]

Stop(flushed) == Event("Stop", "task_complete", "t1", "done", flushed)
Ask(turn)     == Event("PreToolUse", "question", turn, "ask", FALSE)

\* A turn's completion, and a replay of it after the transcript flush, which is then
\* taken for a question.
MCStop  == {Stop(FALSE), Event("Stop", "question", "t1", "done", TRUE)}
\* A turn's completion and a question of that turn.
MCTurns == {Stop(FALSE), Ask("t1")}
=============================================================================
