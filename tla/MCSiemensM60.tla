----------------------------- MODULE MCSiemensM60 -----------------------------
(* One loop and one caller; the patterns are compared and never ordered.     *)
EXTENDS SiemensM60, TLC

Symmetry == Permutations(Patterns)

=============================================================================
