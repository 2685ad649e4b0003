---------------------------- MODULE MCConfigStore ----------------------------
(* A small instance of ConfigStore.                                          *)
EXTENDS ConfigStore, TLC

CONSTANTS w1, w2, h1, legacy, neutral, seed, d1, auto

MCWriters == {w1, w2}

\* Adapters without an override, and a process that names N and cannot lock its home.
MCCalls == {[path |-> auto, guarded |-> TRUE], [path |-> neutral, guarded |-> FALSE]}
WriterSymmetry == Permutations(MCWriters)
==============================================================================
