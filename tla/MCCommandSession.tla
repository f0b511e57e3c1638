-------------------------- MODULE MCCommandSession --------------------------
(* A session with two controllers and two patterns to choose from.          *)
EXTENDS CommandSession, TLC

Symmetry == Permutations(Controllers) \cup Permutations(Patterns)
=============================================================================
