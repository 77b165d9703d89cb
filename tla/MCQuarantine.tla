----------------------------- MODULE MCQuarantine -----------------------------
(* Small instances of Quarantine for TLC: the first file and two others. *)
EXTENDS Quarantine, TLC

CONSTANTS other, third

\* The files created later are interchangeable.
Later == Permutations({other, third})
=============================================================================
