---------------------------- MODULE MCAlertDesk ----------------------------
(* Small instances of AlertDesk for TLC. *)
EXTENDS AlertDesk

AnalystSymmetry == Permutations(Analysts)
=============================================================================
