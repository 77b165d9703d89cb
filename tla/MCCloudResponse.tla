---------------------------- MODULE MCCloudResponse ----------------------------
(* Small instances of CloudResponse for TLC. *)
EXTENDS CloudResponse, TLC

CONSTANTS h1, alice, bob

\* Every job answers an alert of one host, so that a revocation meets several.
OneHost == [j \in Jobs |-> h1]

Symmetry == Permutations(Jobs) \cup Permutations(Workers)
=============================================================================
